---- MODULE Spec2Model ----
(***************************************************************************)
(* Verification model of the DING widget host (gtk4-ding extension):       *)
(*   - WebWidgetContext: ding-widget:// scheme handler and jail roots      *)
(*   - HtmlWidgetHost:   surface construction, pending queues, destroy     *)
(*   - WidgetManager:    instance removal                                  *)
(*   - WidgetRegistry:   manifest scan and duplicate resolution            *)
(* File names are modelled as sequences of one-character strings so that   *)
(* the regular expressions, g_build_filename, g_canonicalize_filename and  *)
(* String.startsWith act on the characters as the code does.               *)
(***************************************************************************)
EXTENDS Integers, Sequences, FiniteSets, TLC

\* ------------------------------------------------------------------------
\* Bounds
\* ------------------------------------------------------------------------
\* longest URI path (after its leading "/") a request may name
MaxRel == 6

\* ------------------------------------------------------------------------
\* Strings
\* ------------------------------------------------------------------------
Chars == {"/", ".", "a"}

\* null where a directory (Gio.File) is expected
NoDir == <<>>

RECURSIVE StripLeadingSlashes(_)
\* String.replace(/^\/+/, '')
StripLeadingSlashes(s) ==
  IF s # <<>> /\ Head(s) = "/" THEN StripLeadingSlashes(Tail(s)) ELSE s

RECURSIVE StripLeadingDotSlash(_)
\* String.replace(/^(\.\/)+/, '')
StripLeadingDotSlash(s) ==
  IF Len(s) >= 2 /\ s[1] = "." /\ s[2] = "/"
  THEN StripLeadingDotSlash(SubSeq(s, 3, Len(s)))
  ELSE s

\* path.replace(/^\/+/, '').replace(/^(\.\/)+/, '')
EffectiveRelPath(path) == StripLeadingDotSlash(StripLeadingSlashes(path))

RECURSIVE SplitAcc(_, _, _)
SplitAcc(s, cur, acc) ==
  IF s = <<>> THEN Append(acc, cur)
  ELSE IF Head(s) = "/" THEN SplitAcc(Tail(s), <<>>, Append(acc, cur))
  ELSE SplitAcc(Tail(s), Append(cur, Head(s)), acc)

\* String.split('/'): the pieces between separators, empty pieces included
Split(s) == SplitAcc(s, <<>>, <<>>)

\* Array.filter(p => p.length > 0)
NonEmptyParts(segs) == SelectSeq(segs, LAMBDA p : Len(p) > 0)

RECURSIVE JoinSegs(_)
\* the absolute file name made of the segments: "/" for none
JoinSegs(segs) ==
  IF segs = <<>> THEN <<>>
  ELSE <<"/">> \o Head(segs) \o JoinSegs(Tail(segs))

AbsName(segs) == IF segs = <<>> THEN <<"/">> ELSE JoinSegs(segs)

RECURSIVE CanonSegs(_, _)
\* lexical canonicalisation over segments: drops "" and ".", ".." pops
\* (and stays at the file system root)
CanonSegs(segs, acc) ==
  IF segs = <<>> THEN acc
  ELSE LET h == Head(segs) IN
       IF h = <<>> \/ h = <<".">> THEN CanonSegs(Tail(segs), acc)
       ELSE IF h = <<".", ".">>
            THEN CanonSegs(Tail(segs),
                           IF acc = <<>> THEN acc
                           ELSE SubSeq(acc, 1, Len(acc) - 1))
            ELSE CanonSegs(Tail(segs), Append(acc, h))

\* GLib.canonicalize_filename(name, null) of an absolute file name
CanonicalizeFilename(name) == AbsName(CanonSegs(Split(name), <<>>))

\* GLib.build_filenamev([first, second]): one separator between the
\* elements, the trailing separators of the first and the leading ones of
\* the second removed
RECURSIVE StripTrailingSlashes(_)
StripTrailingSlashes(s) ==
  IF s # <<>> /\ s[Len(s)] = "/"
  THEN StripTrailingSlashes(SubSeq(s, 1, Len(s) - 1))
  ELSE s

BuildFilename(first, second) ==
  StripTrailingSlashes(first) \o <<"/">> \o StripLeadingSlashes(second)

\* String.startsWith
StartsWith(s, prefix) ==
  Len(s) >= Len(prefix) /\ SubSeq(s, 1, Len(prefix)) = prefix

\* String.endsWith
EndsWith(s, suffix) ==
  Len(s) >= Len(suffix) /\
  SubSeq(s, Len(s) - Len(suffix) + 1, Len(s)) = suffix

\* ------------------------------------------------------------------------
\* The file system the widget bundle lives in (absolute canonical names)
\*   /a        widget bundle directory (the jail root)
\*   /a/a      regular file
\*   /a/aa     directory
\*   /a/aa/a   regular file
\*   /a/.a     symbolic link
\*   /a/aa/.a  symbolic link
\*   /aa       regular file outside the bundle
\* ------------------------------------------------------------------------
WidgetDir == <<"/", "a">>

FileKind(name) ==
  CASE name = <<"/">> -> "dir"
    [] name = <<"/", "a">> -> "dir"
    [] name = <<"/", "a", "/", "a">> -> "file"
    [] name = <<"/", "a", "/", "a", "a">> -> "dir"
    [] name = <<"/", "a", "/", "a", "a", "/", "a">> -> "file"
    [] name = <<"/", "a", "/", ".", "a">> -> "symlink"
    [] name = <<"/", "a", "/", "a", "a", "/", ".", "a">> -> "symlink"
    [] name = <<"/", "a", "a">> -> "file"
    [] OTHER -> "none"

\* Gio.File.get_child(part) of a local file: the joined name, canonicalised
GetChild(file, part) == CanonicalizeFilename(file \o <<"/">> \o part)


\* ------------------------------------------------------------------------
\* State
\* ------------------------------------------------------------------------
InstanceIds == {"A", "B"}
ViewIds == {"v1"}

VARIABLES
  \* WidgetManager._instances: the ids of the instance records it holds
  instances,
  \* WebWidgetContext._instanceRoots: instanceId -> directory, NoDir = no entry
  instanceRoots,
  \* the WebKit views made by newViewForInstance, with the fields bound on them
  views,
  \* the ding-widget request being handled: position of the async handler,
  \* the request's inputs and what has been done with it so far
  req

uriVars == <<instances, instanceRoots, views, req>>

VARIABLES
  \* the fields of the HtmlWidgetHost object
  host,
  \* _makeWebView: "pending", "done" or "rejected"
  mkView,
  \* _makeUrl: "pending", "url" or "nourl"
  mkUrl,
  \* _start: "waiting" for Promise.all, "done" (returned) or "threw"
  startPc,
  \* what the WebKit view has been given, in order: load_uri, load_html and
  \* the evaluate_javascript calls, each with the number of the host call
  \* it carries
  surfaceLog,
  \* the setHostStatePatch / postMessage calls made so far, in order, each
  \* with whether _webView was set when it was made
  callLog,
  \* what getWebViewAsync returned to each caller so far
  gets,
  \* how many times each promise handed out has been resolved
  resolved,
  \* the manager's record of the instance: in _instances, inst.host set
  inst,
  \* outcome of the last stopWidgetDisplay / removeInstance call
  lastCall

hostVars == <<host, mkView, mkUrl, startPc, surfaceLog, callLog, gets,
              resolved, inst, lastCall>>

VARIABLES
  \* the widget bundles on disk: for every root, in the order in which the
  \* enumeration yields them, the id field of each bundle's widget.json
  disk,
  \* WidgetRegistry._widgets: the descriptors, one per id at most
  widgets,
  \* WidgetRegistry._loaded
  loaded,
  \* WidgetRegistry._loadingPromise: the number of the load it is the
  \* promise of, 0 = null
  loadingPromise,
  \* the _loadOnceAsync calls started so far, in order: for each the root
  \* and the place in it the scan has reached, its newMap, whether it is
  \* still running, and the number of reload() calls made before it started
  scan,
  \* WidgetRegistry._loggedDuplicateIds
  loggedDuplicateIds,
  \* the duplicate warnings logged, in order: the load that logged and the id
  warnings,
  \* the last result of listWidgets(), and whether there is one
  listed,
  \* the listWidgets / getDescriptor / getHtmlEntryFile calls made so far
  calls,
  \* the load that built the map _widgets holds, 0 = the constructor's or a
  \* cleared map
  served,
  \* the number of reload() calls made so far
  reloads

regVars == <<disk, widgets, loaded, loadingPromise, scan, loggedDuplicateIds,
             warnings, listed, calls, served, reloads>>

VARIABLES
  \* the WidgetManager: its _instances records (actor, host, config, ...),
  \* _selectedInstanceId, _suppressStateEvents, whether there is a surface
  \* to put actors on, whether it holds a WebWidgetContext, and the
  \* children of the surface's widgetContainer that carry an instance
  \* id, from the first (deepest) to the last (in front), and the grid
  \* of the surface
  mgr,
  \* the WebWidgetContext's preferences fields (_prefsWindow, _prefsHost,
  \* _prefsInstanceId) and the number of preferences windows that exist
  ctx,
  \* the postMessage calls the last operation made on hosts, in order
  sent,
  \* the _dispatchWidgetMessage call that awaits getWebViewAsync(), if any
  wait,
  \* the last operation: its name and arguments, whether it threw, whether
  \* it wrote the widget state to the preferences
  lastOp

mgrVars == <<mgr, ctx, sent, wait, lastOp>>

VARIABLES
  \* the WindowManager: _desktopList, the primary monitor fields and the
  \* change info its last _computeDesktopChangeInfo call returned
  wm,
  \* the window.ding object of one page: _hostState, _configCache, the two
  \* listener sets, the subscriptions made and the callback calls of the
  \* last step
  ding,
  \* the AccentColorIconThemeExtension object and the signal handlers
  \* connected on the Gio.Settings objects it made
  ext

shellVars == <<wm, ding, ext>>

NoView == [root |-> NoDir, instanceId |-> ""]

NoUri == [kind |-> "missing", host |-> "", path |-> <<>>]

IdleReq == [pc |-> "idle", view |-> NoView, uri |-> NoUri,
            finishes |-> <<>>, loads |-> 0, file |-> <<>>, passed |-> {},
            headers |-> <<>>]

\* the URI paths a request may carry: empty, or "/" followed by MaxRel
\* characters at most
UriPaths ==
  {<<>>} \cup
  {<<"/">> \o r : r \in UNION {[1..n -> Chars] : n \in 0..MaxRel}}

\* the URIs WebKit may hand to the handler
Uris ==
  {[kind |-> k, host |-> "", path |-> <<>>] :
     k \in {"missing", "unparsable", "scheme"}} \cup
  {[kind |-> "ok", host |-> h, path |-> p] :
     h \in InstanceIds \cup {""}, p \in UriPaths}

\* ------------------------------------------------------------------------
\* WebWidgetContext: jail roots and views
\* ------------------------------------------------------------------------
\* _getInstanceRoot(instanceId), with the registry's answer desc (a
\* directory, or NoDir when there is no descriptor): the value returned,
\* whether it threw instead (inst undefined), and the map afterwards
GetInstanceRoot(roots, insts, instanceId, desc) ==
  IF roots[instanceId] # NoDir
  THEN [threw |-> FALSE, value |-> roots[instanceId], roots |-> roots]
  ELSE IF instanceId \notin insts
       THEN [threw |-> TRUE, value |-> NoDir, roots |-> roots]
       ELSE IF desc = NoDir
            THEN [threw |-> FALSE, value |-> NoDir, roots |-> roots]
            ELSE [threw |-> FALSE, value |-> desc,
                  roots |-> [roots EXCEPT ![instanceId] = desc]]

\* the model follows one request from the state it is made in to its end:
\* the other operations run before it and while it is in flight
Observing == req.pc \in {"idle", "load"}

\* this._instances.set(instanceId, instance) in _createInstance / loadState
CreateInstance(i) ==
  /\ i \notin instances
  /\ Observing
  /\ instances' = instances \cup {i}
  /\ UNCHANGED <<instanceRoots, views, req>>
  /\ UNCHANGED <<hostVars, regVars, mgrVars, shellVars>>

\* this._instances.delete(instanceId) in _removeActor
DeleteInstance(i) ==
  /\ i \in instances
  /\ Observing
  /\ instances' = instances \ {i}
  /\ UNCHANGED <<instanceRoots, views, req>>
  /\ UNCHANGED <<hostVars, regVars, mgrVars, shellVars>>

\* newViewForInstance(widgetId, instanceId)
NewViewForInstance(v, i) ==
  /\ views[v] = NoView
  /\ Observing
  /\ \E desc \in {NoDir, WidgetDir} :
       LET r == GetInstanceRoot(instanceRoots, instances, i, desc) IN
       /\ ~r.threw
       /\ instanceRoots' = r.roots
       /\ views' = [views EXCEPT ![v] =
                      [root |-> r.value, instanceId |-> i]]
  /\ UNCHANGED <<instances, req>>
  /\ UNCHANGED <<hostVars, regVars, mgrVars, shellVars>>

\* HtmlWidgetHost.destroy of the host owning the view (run_dispose)
DisposeView(v) ==
  /\ views[v] # NoView
  /\ Observing
  /\ views' = [views EXCEPT ![v] = NoView]
  /\ UNCHANGED <<instances, instanceRoots, req>>
  /\ UNCHANGED <<hostVars, regVars, mgrVars, shellVars>>


\* ------------------------------------------------------------------------
\* WebWidgetContext._onDingWidgetUriRequestAsync
\* ------------------------------------------------------------------------
ErrorCodes == {"INVALID_ARGUMENT", "PERMISSION_DENIED", "NOT_FOUND", "FAILED"}

\* ViewBoundTo without the comparison of the instance ids
ViewBoundTo_AnyInstance(view, instanceId) ==
  view.root # NoDir

\* the view may use the URI: it has a root bound and is the view of the
\* instance the URI names (the negation of the test that denies)
ViewBoundTo(view, instanceId) ==
  view.root # NoDir /\ view.instanceId = instanceId

\* "Extra guard": the root bound on the view is the registered root
RootsMatch(view, rootDir) ==
  view.root # NoDir /\ rootDir # NoDir /\ view.root = rootDir

\* IsConfined with the separator left off the root
IsConfined_NoSeparator(rootPath, effectiveRelPath) ==
  LET candidatePath == BuildFilename(rootPath, effectiveRelPath)
      canonRoot == CanonicalizeFilename(rootPath)
      canonFile == CanonicalizeFilename(candidatePath)
  IN StartsWith(canonFile, canonRoot)

\* lexical confinement: the canonical candidate starts with the canonical
\* root followed by a separator
IsConfined(rootPath, effectiveRelPath) ==
  LET candidatePath == BuildFilename(rootPath, effectiveRelPath)
      canonRoot == CanonicalizeFilename(rootPath)
      canonFile == CanonicalizeFilename(candidatePath)
      normalizedRoot == IF EndsWith(canonRoot, <<"/">>)
                        THEN canonRoot
                        ELSE canonRoot \o <<"/">>
  IN StartsWith(canonFile, normalizedRoot)

RECURSIVE WalkParts(_, _)
\* the symlink walk: get_child and query_info(NOFOLLOW_SYMLINKS) for every
\* part in turn; query_info throws on a name that does not exist
WalkParts(file, parts) ==
  IF parts = <<>> THEN [status |-> "ok", file |-> file]
  ELSE LET child == GetChild(file, Head(parts)) IN
       IF FileKind(child) = "none"
       THEN [status |-> "notfound", file |-> child]
       ELSE IF FileKind(child) = "symlink"
            THEN [status |-> "symlink", file |-> child]
            ELSE WalkParts(child, Tail(parts))

\* SymlinkWalk with no component looked at
SymlinkWalk_Skipped(rootDir, effectiveRelPath) ==
  [status |-> "ok",
   file |-> CanonicalizeFilename(BuildFilename(rootDir, effectiveRelPath))]

SymlinkWalk(rootDir, effectiveRelPath) ==
  WalkParts(rootDir, NonEmptyParts(Split(effectiveRelPath)))

\* the handler from the root guard to the call of load_bytes_async: the
\* error it finishes with ("" when it goes on to load), the file it loads
\* and the checks it has passed by then
PathChecks(view, rootDir, path) ==
  LET rel == EffectiveRelPath(path)
      walk == SymlinkWalk(rootDir, rel)
      stop(code, passed) ==
        [finish |-> code, file |-> <<>>, passed |-> passed]
  IN
  IF rootDir = NoDir THEN stop("NOT_FOUND", {})
  ELSE IF ~RootsMatch(view, rootDir) THEN stop("PERMISSION_DENIED", {})
  ELSE IF rel = <<>> THEN stop("NOT_FOUND", {})
  ELSE IF ~IsConfined(rootDir, rel) THEN stop("PERMISSION_DENIED", {})
  ELSE IF walk.status = "symlink"
       THEN stop("PERMISSION_DENIED", {"lexical"})
  ELSE IF walk.status = "notfound" THEN stop("NOT_FOUND", {"lexical"})
  ELSE [finish |-> "", file |-> walk.file,
        passed |-> {"lexical", "symlink"}]

\* the handler up to the guard on the requesting view: the error it
\* finishes with, "" when it goes on to _getInstanceRoot
EntryChecks(view, uri) ==
  IF uri.kind # "ok" THEN "INVALID_ARGUMENT"
  ELSE IF uri.host = "" THEN "INVALID_ARGUMENT"
  ELSE IF ~ViewBoundTo(view, uri.host) THEN "PERMISSION_DENIED"
  ELSE ""

Finished(r, result) ==
  [r EXCEPT !.pc = "done", !.finishes = Append(@, result)]

\* WebKit calls the handler registered for the ding-widget scheme for a
\* request of view v: the handler runs to its first real suspension, the
\* call of load_bytes_async
OnDingWidgetUriRequest(v, uri) ==
  /\ ctx.runtime.scheme
  /\ req.pc = "idle"
  /\ views[v] # NoView
  /\ LET view == views[v]
         r0 == [IdleReq EXCEPT !.view = view, !.uri = uri]
         entry == EntryChecks(view, uri)
     IN
     IF entry # ""
     THEN /\ req' = Finished(r0, entry)
          /\ UNCHANGED instanceRoots
     ELSE \E desc \in {NoDir, WidgetDir} :
            LET root == GetInstanceRoot(instanceRoots, instances,
                                        uri.host, desc)
                checks == PathChecks(view, root.value, uri.path)
            IN
            /\ instanceRoots' = root.roots
            /\ req' = IF root.threw THEN [r0 EXCEPT !.pc = "threw"]
                      ELSE IF checks.finish # ""
                      THEN [Finished(r0, checks.finish)
                              EXCEPT !.passed = checks.passed]
                      ELSE [r0 EXCEPT !.pc = "load",
                                      !.file = checks.file,
                                      !.passed = checks.passed,
                                      !.loads = @ + 1]
  /\ UNCHANGED <<instances, views>>
  /\ UNCHANGED <<hostVars, regVars, mgrVars, shellVars>>

\* the request finished with a response: the Content-Security-Policy
\* header is appended when _cspString is not empty
WithResponse(r, cspString) ==
  [Finished(r, "CONTENT") EXCEPT
     !.headers = IF cspString # <<>>
                 THEN <<[name |-> "Content-Security-Policy",
                         value |-> cspString]>>
                 ELSE <<>>]

\* LoadBytesDone returning on a failed load without finishing the request
LoadBytesDone_SwallowsLoadError(gotBytes, built) ==
  /\ req.pc = "load"
  /\ gotBytes => FileKind(req.file) \in {"file", "symlink"}
  /\ req' = IF ~gotBytes THEN [req EXCEPT !.pc = "done"]
            ELSE IF built THEN WithResponse(req, ctx.cspString)
            ELSE Finished(req, "FAILED")
  /\ UNCHANGED <<instances, instanceRoots, views>>
  /\ UNCHANGED <<hostVars, regVars, mgrVars, shellVars>>

\* load_bytes_async completes: with the bytes (of a regular file, or of
\* the target of a symbolic link, which it follows) or with an error; the
\* response is then built and the request finished; building the response
\* may throw
LoadBytesDone(gotBytes, built) ==
  /\ req.pc = "load"
  /\ gotBytes => FileKind(req.file) \in {"file", "symlink"}
  /\ req' = IF ~gotBytes THEN Finished(req, "NOT_FOUND")
            ELSE IF built THEN WithResponse(req, ctx.cspString)
            ELSE Finished(req, "FAILED")
  /\ UNCHANGED <<instances, instanceRoots, views>>
  /\ UNCHANGED <<hostVars, regVars, mgrVars, shellVars>>


\* ------------------------------------------------------------------------
\* Specification of the scheme handler
\* ------------------------------------------------------------------------
InitUri ==
  /\ instances = {}
  /\ instanceRoots = [i \in InstanceIds |-> NoDir]
  /\ views = [v \in ViewIds |-> NoView]
  /\ req = IdleReq

NextUri ==
  \/ \E i \in InstanceIds : CreateInstance(i)
  \/ \E i \in InstanceIds : DeleteInstance(i)
  \/ \E v \in ViewIds, i \in InstanceIds : NewViewForInstance(v, i)
  \/ \E v \in ViewIds : DisposeView(v)
  \/ \E v \in ViewIds, uri \in Uris : OnDingWidgetUriRequest(v, uri)
  \/ \E gotBytes, built \in BOOLEAN : LoadBytesDone(gotBytes, built)


\* ------------------------------------------------------------------------
\* Properties of the scheme handler
\* ------------------------------------------------------------------------
\* a request WebKit could parse, naming an instance
WellFormed(r) == r.uri.kind = "ok" /\ r.uri.host # ""

\* the relative path as requested: the URI path after its leading "/"
RequestedRel(r) == IF r.uri.path = <<>> THEN <<>> ELSE Tail(r.uri.path)

HasDotDotSegment(rel) ==
  \E k \in 1..Len(Split(rel)) : Split(rel)[k] = <<".", ".">>

IsAbsolute(rel) == rel # <<>> /\ Head(rel) = "/"

\* the file named by the first k parts of rel below the widget directory
PrefixFile(rel, k) ==
  LET parts == NonEmptyParts(Split(rel)) IN
  CanonicalizeFilename(WidgetDir \o JoinSegs(SubSeq(parts, 1, k)))

NumParts(rel) == Len(NonEmptyParts(Split(rel)))

\* some component of rel is a symbolic link
HasSymlinkComponent(rel) ==
  \E k \in 1..NumParts(rel) : FileKind(PrefixFile(rel, k)) = "symlink"

\* going down rel component by component, a symbolic link is met (every
\* component before it exists)
MeetsSymlink(rel) ==
  \E k \in 1..NumParts(rel) :
     /\ FileKind(PrefixFile(rel, k)) = "symlink"
     /\ \A j \in 1..(k - 1) :
          FileKind(PrefixFile(rel, j)) \notin {"none", "symlink"}

\* rel names a place strictly below the widget directory
StrictlyInside(rel) ==
  LET file == CanonicalizeFilename(WidgetDir \o <<"/">> \o rel) IN
  /\ Len(file) > Len(WidgetDir) + 1
  /\ SubSeq(file, 1, Len(WidgetDir) + 1) = WidgetDir \o <<"/">>

\* C1 (as claimed): a finished well-formed request whose relative path has
\* a ".." segment, is absolute or has a symbolic link among its components
\* was finished with permission-denied
C1_AsClaimed ==
  (req.pc = "done" /\ WellFormed(req) /\
   (\/ HasDotDotSegment(RequestedRel(req))
    \/ IsAbsolute(RequestedRel(req))
    \/ HasSymlinkComponent(RequestedRel(req))))
  => req.finishes = <<"PERMISSION_DENIED">>

\* C1 (amended): a finished well-formed request whose effective relative
\* path is not empty and either leaves the widget directory once
\* canonicalised or meets a symbolic link on the way down was finished with
\* permission-denied and nothing else, and no file was loaded for it
C1_EscapeOrSymlinkDenied ==
  LET rel == EffectiveRelPath(req.uri.path) IN
  (req.pc = "done" /\ WellFormed(req) /\ rel # <<>> /\
   (~StrictlyInside(rel) \/ MeetsSymlink(rel)))
  => (req.finishes = <<"PERMISSION_DENIED">> /\ req.loads = 0)

\* C1 witness: a bound view asked for "/../aa", which climbs out of the
\* widget directory, and was denied
C1_Witness ==
  /\ req.pc = "done"
  /\ req.uri.kind = "ok"
  /\ ViewBoundTo(req.view, req.uri.host)
  /\ req.uri.path = <<"/", ".", ".", "/", "a", "a">>
  /\ req.finishes = <<"PERMISSION_DENIED">>

\* C2: file bytes are loaded, and content is served, only for a request
\* whose canonical candidate lies strictly below the canonical root and
\* none of whose components is a symbolic link, both checks having passed
\* before the load
C2_ChecksBeforeLoad ==
  LET rel == EffectiveRelPath(req.uri.path) IN
  /\ (req.loads > 0 \/ \E k \in 1..Len(req.finishes) :
                         req.finishes[k] = "CONTENT")
       => /\ req.passed = {"lexical", "symlink"}
          /\ StrictlyInside(rel)
          /\ ~HasSymlinkComponent(rel)
          /\ req.loads = 1
  /\ (req.pc = "done" /\ WellFormed(req) /\ rel # <<>> /\
      ~StrictlyInside(rel)) => req.loads = 0

\* C2 witness: content was served for "/a/../a" after both checks
C2_Witness ==
  /\ req.pc = "done"
  /\ req.finishes = <<"CONTENT">>
  /\ req.uri.path = <<"/", "a", "/", ".", ".", "/", "a">>
  /\ req.passed = {"lexical", "symlink"}

C4_FinishedExactlyOnce ==
  /\ Len(req.finishes) <= 1
  /\ req.pc # "threw"
  /\ req.pc = "done" =>
       (Len(req.finishes) = 1 /\
        req.finishes[1] \in ErrorCodes \cup {"CONTENT"})
  /\ req.pc = "load" => req.finishes = <<>>

\* C4 witness: the last step failed (the response could not be built) and
\* the request was finished with the FAILED error
C4_Witness ==
  /\ req.pc = "done"
  /\ req.loads = 1
  /\ req.finishes = <<"FAILED">>


\* ========================================================================
\* HtmlWidgetHost (one host, built by the manager for one instance)
\* ========================================================================
\* calls of setHostStatePatch / postMessage made on the host in one run
MaxCalls == 3
\* calls of getWebViewAsync made on the host in one run
MaxGets == 2

\* the constructor: empty queues, no view, not destroyed, the frame made by
\* _makeGtkWidget, no promise yet
NewHost ==
  [destroyed |-> FALSE,
   webView |-> FALSE,
   frame |-> "empty",
   pendingHostStatePatches |-> <<>>,
   pendingPostMessages |-> <<>>,
   webViewPromise |-> 0]

\* isAlive()
IsAlive(h) == ~h.destroyed

\* _evaluateScript: the script reaches the view unless the host is
\* destroyed or has no view
EvaluateScript(h, log, entry) ==
  IF h.destroyed \/ ~h.webView THEN log ELSE Append(log, entry)

\* destroy(): the host afterwards and whether the call threw a TypeError
\* (this._frame or this._webView null when dereferenced)
HostDestroy(h) ==
  LET h1 == [h EXCEPT !.destroyed = TRUE] IN
  IF h1.frame = "none" THEN [host |-> h1, threw |-> TRUE]
  ELSE LET h2 == [h1 EXCEPT !.frame = "empty"] IN
       IF ~h2.webView THEN [host |-> h2, threw |-> TRUE]
       ELSE [host |-> [h2 EXCEPT !.webView = FALSE,
                                 !.frame = "none",
                                 !.pendingHostStatePatches = <<>>],
             threw |-> FALSE]

\* setHostStatePatch(patch) for call number n
HostSetHostStatePatch(h, log, n) ==
  IF h.destroyed \/ ~h.webView
  THEN [host |-> [h EXCEPT !.pendingHostStatePatches = Append(@, n)],
        log |-> log]
  ELSE [host |-> h,
        log |-> EvaluateScript(h, log, [kind |-> "patch", n |-> n])]

\* postMessage(msg) for call number n
HostPostMessage(h, log, n) ==
  IF h.destroyed \/ ~h.webView
  THEN [host |-> [h EXCEPT !.pendingPostMessages = Append(@, n)],
        log |-> log]
  ELSE [host |-> h,
        log |-> EvaluateScript(h, log, [kind |-> "msg", n |-> n])]

RECURSIVE FlushQueue_Reversed(_, _, _, _)
\* FlushQueue going through the queue from its end
FlushQueue_Reversed(h, log, queue, kind) ==
  IF queue = <<>> THEN log
  ELSE FlushQueue_Reversed(h,
         EvaluateScript(h, log, [kind |-> kind, n |-> queue[Len(queue)]]),
         SubSeq(queue, 1, Len(queue) - 1), kind)

RECURSIVE FlushQueue(_, _, _, _)
\* for (const x of queue) this._send...(x)
FlushQueue(h, log, queue, kind) ==
  IF queue = <<>> THEN log
  ELSE FlushQueue(h,
                  EvaluateScript(h, log, [kind |-> kind, n |-> Head(queue)]),
                  Tail(queue), kind)

\* _flushPendingHostStatePatches(); _flushPendingMessages()
FlushPending(h, log) ==
  LET afterPatches == FlushQueue(h, log, h.pendingHostStatePatches, "patch")
  IN [host |-> [h EXCEPT !.pendingHostStatePatches = <<>>,
                         !.pendingPostMessages = <<>>],
      log |-> FlushQueue(h, afterPatches, h.pendingPostMessages, "msg")]

\* StartContinuation without the else branch that loads the fallback
StartContinuation_NoFallback(h, log, res, viewOk, url) ==
  IF ~viewOk
  THEN [host |-> h, log |-> log, resolved |-> res, pc |-> "threw"]
  ELSE LET res1 == IF h.webViewPromise # 0
                   THEN [res EXCEPT ![h.webViewPromise] = @ + 1]
                   ELSE res
           h1 == [h EXCEPT !.webViewPromise = 0]
           log1 == IF url THEN Append(log, [kind |-> "load_uri", n |-> 0])
                   ELSE log
           flushed == FlushPending(h1, log1)
       IN IF ~h1.webView
          THEN [host |-> h1, log |-> log, resolved |-> res1, pc |-> "done"]
          ELSE [host |-> flushed.host, log |-> flushed.log,
                resolved |-> res1, pc |-> "done"]

\* _start after Promise.all has settled: on a rejection the destructuring
\* of the undefined value of the catch handler throws; otherwise the
\* promise is resolved and forgotten, the URL or the fallback document is
\* loaded and the queues are flushed
StartContinuation(h, log, res, viewOk, url) ==
  IF ~viewOk
  THEN [host |-> h, log |-> log, resolved |-> res, pc |-> "threw"]
  ELSE LET res1 == IF h.webViewPromise # 0
                   THEN [res EXCEPT ![h.webViewPromise] = @ + 1]
                   ELSE res
           h1 == [h EXCEPT !.webViewPromise = 0]
           log1 == Append(log, [kind |-> IF url THEN "load_uri"
                                         ELSE "load_html", n |-> 0])
           flushed == FlushPending(h1, log1)
       IN IF ~h1.webView
          THEN [host |-> h1, log |-> log, resolved |-> res1, pc |-> "done"]
          ELSE [host |-> flushed.host, log |-> flushed.log,
                resolved |-> res1, pc |-> "done"]


\* the manager can reach the host: the instance is in _instances and its
\* host field is set
HostReachable == inst.present /\ inst.host

\* getWebViewAsync(), called through inst.host
GetWebViewAsync ==
  /\ HostReachable
  /\ Len(gets) < MaxGets
  /\ LET made == {gets[k].promise : k \in 1..Len(gets)} \ {0}
         fresh == Cardinality(made) + 1
         p == IF host.webViewPromise # 0 THEN host.webViewPromise ELSE fresh
     IN IF host.webView
        THEN /\ gets' = Append(gets, [promise |-> 0, startPc |-> startPc,
                                      ready |-> TRUE])
             /\ host' = host
        ELSE /\ gets' = Append(gets, [promise |-> p, startPc |-> startPc,
                                      ready |-> FALSE])
             /\ host' = [host EXCEPT !.webViewPromise = p]
  /\ UNCHANGED <<mkView, mkUrl, startPc, surfaceLog, callLog, resolved,
                 inst, lastCall>>
  /\ UNCHANGED <<uriVars, regVars, mgrVars, shellVars>>

\* setHostStatePatch(patch), called through inst.host
SetHostStatePatch ==
  /\ HostReachable
  /\ Len(callLog) < MaxCalls
  /\ LET n == Len(callLog) + 1
         r == HostSetHostStatePatch(host, surfaceLog, n)
     IN /\ host' = r.host
        /\ surfaceLog' = r.log
        /\ callLog' = Append(callLog, [kind |-> "patch",
                                       ready |-> host.webView,
                                       alive |-> IsAlive(host)])
  /\ UNCHANGED <<mkView, mkUrl, startPc, gets, resolved, inst, lastCall>>
  /\ UNCHANGED <<uriVars, regVars, mgrVars, shellVars>>

\* postMessage(msg), called through inst.host
PostMessage ==
  /\ HostReachable
  /\ Len(callLog) < MaxCalls
  /\ LET n == Len(callLog) + 1
         r == HostPostMessage(host, surfaceLog, n)
     IN /\ host' = r.host
        /\ surfaceLog' = r.log
        /\ callLog' = Append(callLog, [kind |-> "msg",
                                       ready |-> host.webView,
                                       alive |-> IsAlive(host)])
  /\ UNCHANGED <<mkView, mkUrl, startPc, gets, resolved, inst, lastCall>>
  /\ UNCHANGED <<uriVars, regVars, mgrVars, shellVars>>

\* newViewForInstance settles and _makeWebView goes on: it stores the view
\* and puts it in the frame (whatever _destroyed says); a rejection, or
\* the fulfilment that completes Promise.all, lets _start go on
MakeWebViewDone(ok) ==
  /\ mkView = "pending"
  /\ LET h1 == IF ~ok THEN host
               ELSE IF host.frame = "none"
                    THEN [host EXCEPT !.webView = TRUE]
                    ELSE [host EXCEPT !.webView = TRUE, !.frame = "view"]
         viewOk == ok /\ host.frame # "none"
         c == StartContinuation(h1, surfaceLog, resolved, viewOk,
                                mkUrl = "url")
     IN /\ mkView' = IF viewOk THEN "done" ELSE "rejected"
        /\ IF startPc = "waiting" /\ (~viewOk \/ mkUrl # "pending")
           THEN /\ host' = c.host
                /\ surfaceLog' = c.log
                /\ resolved' = c.resolved
                /\ startPc' = c.pc
           ELSE /\ host' = h1
                /\ UNCHANGED <<surfaceLog, resolved, startPc>>
  /\ UNCHANGED <<mkUrl, callLog, gets, inst, lastCall>>
  /\ UNCHANGED <<uriVars, regVars, mgrVars, shellVars>>

\* _makeUrl settles with the URL or with null (no entry file, no prefs
\* URI); the fulfilment that completes Promise.all lets _start go on
MakeUrlDone(url) ==
  /\ mkUrl = "pending"
  /\ mkUrl' = IF url THEN "url" ELSE "nourl"
  /\ LET c == StartContinuation(host, surfaceLog, resolved, TRUE, url) IN
     IF startPc = "waiting" /\ mkView = "done"
     THEN /\ host' = c.host
          /\ surfaceLog' = c.log
          /\ resolved' = c.resolved
          /\ startPc' = c.pc
     ELSE UNCHANGED <<host, surfaceLog, resolved, startPc>>
  /\ UNCHANGED <<mkView, callLog, gets, inst, lastCall>>
  /\ UNCHANGED <<uriVars, regVars, mgrVars, shellVars>>

\* WidgetManager.stopWidgetDisplay (one instance): destroys the host and
\* forgets host and actor; a throwing destroy() ends the call there
StopWidgetDisplay ==
  /\ inst.present
  /\ IF inst.host
     THEN LET r == HostDestroy(host) IN
          /\ host' = r.host
          /\ inst' = IF r.threw THEN inst ELSE [inst EXCEPT !.host = FALSE]
          /\ lastCall' = [op |-> "stop", threw |-> r.threw,
                          destroyThrew |-> lastCall.destroyThrew \/ r.threw]
     ELSE /\ lastCall' = [lastCall EXCEPT !.op = "stop", !.threw = FALSE]
          /\ UNCHANGED <<host, inst>>
  /\ UNCHANGED <<mkView, mkUrl, startPc, surfaceLog, callLog, gets,
                 resolved>>
  /\ UNCHANGED <<uriVars, regVars, mgrVars, shellVars>>

\* _removeActor with the host as it is
RemoveActor(h, i) ==
  IF ~i.present THEN [host |-> h, inst |-> i, threw |-> FALSE]
  ELSE IF i.host
       THEN LET r == HostDestroy(h) IN
            IF r.threw THEN [host |-> r.host, inst |-> i, threw |-> TRUE]
            ELSE [host |-> r.host,
                  inst |-> [i EXCEPT !.present = FALSE],
                  threw |-> FALSE]
       ELSE [host |-> h, inst |-> [i EXCEPT !.present = FALSE],
             threw |-> FALSE]

\* WidgetManager.removeInstance(instanceId) of the existing instance
RemoveInstance ==
  /\ inst.present
  /\ LET r == RemoveActor(host, inst) IN
     /\ host' = r.host
     /\ inst' = r.inst
     /\ lastCall' = [op |-> "remove", threw |-> r.threw,
                     destroyThrew |-> lastCall.destroyThrew \/ r.threw]
  /\ UNCHANGED <<mkView, mkUrl, startPc, surfaceLog, callLog, gets,
                 resolved>>
  /\ UNCHANGED <<uriVars, regVars, mgrVars, shellVars>>

InitHost ==
  /\ host = NewHost
  /\ mkView = "pending"
  /\ mkUrl = "pending"
  /\ startPc = "waiting"
  /\ surfaceLog = <<>>
  /\ callLog = <<>>
  /\ gets = <<>>
  /\ resolved = [p \in 1..MaxGets |-> 0]
  /\ inst = [present |-> TRUE, host |-> TRUE]
  /\ lastCall = [op |-> "none", threw |-> FALSE, destroyThrew |-> FALSE]

NextHost ==
  \/ GetWebViewAsync
  \/ SetHostStatePatch
  \/ PostMessage
  \/ \E ok \in BOOLEAN : MakeWebViewDone(ok)
  \/ \E url \in BOOLEAN : MakeUrlDone(url)
  \/ StopWidgetDisplay
  \/ RemoveInstance


\* ========================================================================
\* WidgetRegistry
\* ========================================================================
\* widget bundles on disk, all roots together
MaxBundles == 3

\* the roots in the order _loadOnceAsync scans them: the user root, then
\* the system roots
Roots == <<"user", "system1", "system2">>

IsUserRoot(r) == r = 1

\* characters of a manifest id
IdChars == {"c", "k", " ", "!"}

\* the id fields found in the manifests; NotAString is an id that is
\* missing or not a string
NotAString == <<"?">>
ManifestIds ==
  {<<"c">>, <<"k">>, <<" ", "c">>, <<"c", "!">>, NotAString}

RECURSIVE TrimStart(_)
TrimStart(s) == IF s # <<>> /\ Head(s) = " " THEN TrimStart(Tail(s)) ELSE s

RECURSIVE TrimEnd(_)
TrimEnd(s) ==
  IF s # <<>> /\ s[Len(s)] = " " THEN TrimEnd(SubSeq(s, 1, Len(s) - 1))
  ELSE s

\* typeof manifest.id === 'string' ? manifest.id.trim() : ''
IdRaw(manifestId) ==
  IF manifestId = NotAString THEN <<>> ELSE TrimEnd(TrimStart(manifestId))

\* !!idRaw && /^[A-Za-z0-9._-]+$/.test(idRaw)
IdOk(idRaw) ==
  idRaw # <<>> /\ \A k \in 1..Len(idRaw) : idRaw[k] \in {"c", "k"}

NoDesc == [id |-> <<>>, isUser |-> FALSE, dir |-> <<0, 0>>]

\* the descriptor built from the bundle at place pos of root r
Descriptor(r, pos, manifestId) ==
  [id |-> IdRaw(manifestId), isUser |-> IsUserRoot(r), dir |-> <<r, pos>>]

\* a duplicate rule under which the later bundle always wins
Replace_Always(isUser, existing) == TRUE

\* const replace = isUser && !existing.isUser
Replace(isUser, existing) == isUser /\ ~existing.isUser

\* _logDuplicateIds for load l: the set of logged ids and the warnings
\* afterwards
LogDuplicateIds(logged, warns, l, id) ==
  IF id \in logged THEN [logged |-> logged, warnings |-> warns]
  ELSE [logged |-> logged \cup {id},
        warnings |-> Append(warns, [load |-> l, id |-> id])]

\* the body of the for loop of _scanRootAsync for one bundle, in load l:
\* the map, the logged ids and the warnings afterwards
ScanBundle(outMap, logged, warns, l, r, pos, manifestId) ==
  LET idRaw == IdRaw(manifestId)
      desc == Descriptor(r, pos, manifestId)
      existing == outMap[idRaw]
      log == LogDuplicateIds(logged, warns, l, idRaw)
  IN
  IF ~IdOk(idRaw)
  THEN [map |-> outMap, logged |-> logged, warnings |-> warns]
  ELSE IF existing # NoDesc
       THEN [map |-> IF Replace(IsUserRoot(r), existing)
                     THEN [outMap EXCEPT ![idRaw] = desc]
                     ELSE outMap,
             logged |-> log.logged, warnings |-> log.warnings]
       ELSE [map |-> [outMap EXCEPT ![idRaw] = desc],
             logged |-> logged, warnings |-> warns]

\* the ids a descriptor map may hold
ValidIds == {IdRaw(m) : m \in {x \in ManifestIds : IdOk(IdRaw(x))}}

EmptyMap == [id \in ValidIds |-> NoDesc]

\* the next bundle the scan of a load comes to, from place pos of root r
\* on: <<root, place>>, or <<0, 0>> when nothing is left
RECURSIVE NextBundle(_, _, _)
NextBundle(d, r, pos) ==
  IF r > Len(Roots) THEN <<0, 0>>
  ELSE IF pos <= Len(d[r]) THEN <<r, pos>>
  ELSE NextBundle(d, r + 1, 1)

\* loads started in one run (the constructor's and those of reload())
MaxLoads == 2
\* listWidgets / getDescriptor / getHtmlEntryFile calls made in one run
MaxRegCalls == 2

\* _loadOnceAsync up to its first await: a new map, in a registry that
\* has seen gen reload() calls
NewLoad(gen) ==
  [running |-> TRUE, root |-> 1, pos |-> 1, map |-> EmptyMap, gen |-> gen]

\* _ensureLoadedAsync that starts a load whenever the map is not loaded
EnsureLoadedAsync_NoCoalescing(isLoaded, promise) ==
  IF isLoaded THEN "return" ELSE "start"

\* _ensureLoadedAsync: return at once, await the load in flight, or start
\* a load and await it
EnsureLoadedAsync(isLoaded, promise) ==
  IF isLoaded THEN "return"
  ELSE IF promise # 0 THEN "await"
  ELSE "start"

\* the ids the callers of getDescriptor / getHtmlEntryFile pass; <<>> is
\* the empty id
CallIds == {<<"c">>, <<>>}

\* what a call returns when it reads the map: the descriptors of
\* listWidgets, the descriptor of getDescriptor (none = null), the
\* descriptor whose index.html getHtmlEntryFile returns (none = null)
CallResult(op, id, map, entryOk) ==
  IF op = "listWidgets" THEN {map[i] : i \in ValidIds} \ {NoDesc}
  ELSE IF id \notin ValidIds THEN {}
  ELSE IF op = "getDescriptor" THEN {map[id]} \ {NoDesc}
  ELSE IF entryOk THEN {map[id]} \ {NoDesc}
  ELSE {}

\* a call that has returned its result
Returned(c, map, isLoaded, from, entryOk) ==
  [c EXCEPT !.state = "done",
            !.result = CallResult(c.op, c.id, map, entryOk),
            !.sawLoaded = isLoaded,
            !.served = from]

\* listed after a call has returned
Listed(c, old) ==
  IF c.op = "listWidgets" /\ c.state = "done"
  THEN [called |-> TRUE, result |-> c.result]
  ELSE old

\* _scanRootAsync of load l, one bundle: readJsonFile has delivered the
\* manifest of the next bundle and the loop body runs on it
ScanNext(l) ==
  /\ scan[l].running
  /\ LET at == NextBundle(disk, scan[l].root, scan[l].pos) IN
     /\ at # <<0, 0>>
     /\ LET r == ScanBundle(scan[l].map, loggedDuplicateIds, warnings, l,
                            at[1], at[2], disk[at[1]][at[2]])
        IN /\ scan' = [scan EXCEPT ![l].root = at[1], ![l].pos = at[2] + 1,
                                   ![l].map = r.map]
           /\ loggedDuplicateIds' = r.logged
           /\ warnings' = r.warnings
  /\ UNCHANGED <<disk, widgets, loaded, loadingPromise, listed, calls,
                 served, reloads>>
  /\ UNCHANGED <<uriVars, hostVars, mgrVars, shellVars>>

\* _loadOnceAsync of load l after the last root: this._widgets = newMap;
\* this._loaded = true. Then, in the same turn, the finally of the
\* _ensureLoadedAsync that started the load sets _loadingPromise to null
\* and every call that awaited the load reads this._widgets and returns.
LoadOnceDone(l, entryOk) ==
  /\ scan[l].running
  /\ NextBundle(disk, scan[l].root, scan[l].pos) = <<0, 0>>
  /\ widgets' = scan[l].map
  /\ served' = l
  /\ loaded' = TRUE
  /\ loadingPromise' = 0
  /\ scan' = [scan EXCEPT ![l].running = FALSE]
  /\ calls' = [k \in 1..Len(calls) |->
                 IF calls[k].state = "waiting" /\ calls[k].load = l
                 THEN Returned(calls[k], scan[l].map, TRUE, l, entryOk)
                 ELSE calls[k]]
  /\ listed' = IF \E k \in 1..Len(calls) :
                    /\ calls[k].state = "waiting" /\ calls[k].load = l
                    /\ calls[k].op = "listWidgets"
               THEN [called |-> TRUE,
                     result |-> CallResult("listWidgets", <<>>, scan[l].map,
                                           entryOk)]
               ELSE listed
  /\ UNCHANGED <<disk, loggedDuplicateIds, warnings, reloads>>
  /\ UNCHANGED <<uriVars, hostVars, mgrVars, shellVars>>

\* a public call: await this._ensureLoadedAsync(), then read this._widgets
Call(op, id, entryOk) ==
  /\ Len(calls) < MaxRegCalls
  /\ LET how == EnsureLoadedAsync(loaded, loadingPromise)
         c == [op |-> op, id |-> id, state |-> "waiting", load |-> 0,
               result |-> {}, sawLoaded |-> FALSE, served |-> 0,
               atReloads |-> reloads, inFlight |-> loadingPromise]
     IN
     \/ /\ how = "return"
        /\ LET r == Returned(c, widgets, loaded, served, entryOk) IN
           /\ calls' = Append(calls, r)
           /\ listed' = Listed(r, listed)
        /\ UNCHANGED <<scan, loggedDuplicateIds, loadingPromise>>
     \/ /\ how = "await"
        /\ calls' = Append(calls, [c EXCEPT !.load = loadingPromise])
        /\ UNCHANGED <<scan, loggedDuplicateIds, loadingPromise, listed>>
     \/ /\ how = "start"
        /\ Len(scan) < MaxLoads
        /\ scan' = Append(scan, NewLoad(reloads))
        /\ loggedDuplicateIds' = {}
        /\ loadingPromise' = Len(scan) + 1
        /\ calls' = Append(calls, [c EXCEPT !.load = Len(scan) + 1])
        /\ UNCHANGED listed
  /\ UNCHANGED <<disk, widgets, loaded, warnings, served, reloads>>
  /\ UNCHANGED <<uriVars, hostVars, mgrVars, shellVars>>

\* listWidgets()
ListWidgets == Call("listWidgets", <<>>, TRUE)

\* getDescriptor(id): null at once for an empty id
GetDescriptor(id) ==
  IF id = <<>>
  THEN /\ Len(calls) < MaxRegCalls
       /\ calls' = Append(calls,
            [op |-> "getDescriptor", id |-> id, state |-> "done",
             load |-> 0, result |-> {}, sawLoaded |-> loaded,
             served |-> served, atReloads |-> reloads,
             inFlight |-> loadingPromise])
       /\ UNCHANGED <<disk, widgets, loaded, loadingPromise, scan,
                      loggedDuplicateIds, warnings, listed, served, reloads>>
       /\ UNCHANGED <<uriVars, hostVars, mgrVars, shellVars>>
  ELSE Call("getDescriptor", id, TRUE)

\* getHtmlEntryFile(id): the descriptor by getDescriptor, then index.html
\* when the widget is an html one and the file is a regular file (entryOk)
GetHtmlEntryFile(id, entryOk) ==
  IF id = <<>>
  THEN /\ Len(calls) < MaxRegCalls
       /\ calls' = Append(calls,
            [op |-> "getHtmlEntryFile", id |-> id, state |-> "done",
             load |-> 0, result |-> {}, sawLoaded |-> loaded,
             served |-> served, atReloads |-> reloads,
             inFlight |-> loadingPromise])
       /\ UNCHANGED <<disk, widgets, loaded, loadingPromise, scan,
                      loggedDuplicateIds, warnings, listed, served, reloads>>
       /\ UNCHANGED <<uriVars, hostVars, mgrVars, shellVars>>
  ELSE Call("getHtmlEntryFile", id, entryOk)

\* reload(): forget the map and preload() again
Reload ==
  /\ Len(scan) < MaxLoads
  /\ loaded' = FALSE
  /\ widgets' = EmptyMap
  /\ served' = 0
  /\ reloads' = reloads + 1
  /\ scan' = Append(scan, NewLoad(reloads + 1))
  /\ loggedDuplicateIds' = {}
  /\ loadingPromise' = Len(scan) + 1
  /\ UNCHANGED <<disk, warnings, listed, calls>>
  /\ UNCHANGED <<uriVars, hostVars, mgrVars, shellVars>>

\* the bundle sets: every root holds a sequence of bundles, MaxBundles
\* bundles at most all together
BundleCounts ==
  {l \in (0..MaxBundles) \X (0..MaxBundles) \X (0..MaxBundles) :
     l[1] + l[2] + l[3] <= MaxBundles}

Disks ==
  UNION {{<<u, s1, s2>> : u \in [1..l[1] -> ManifestIds],
                          s1 \in [1..l[2] -> ManifestIds],
                          s2 \in [1..l[3] -> ManifestIds]} :
         l \in BundleCounts}

\* the bundle sets in which every bundle carries the id c
SameIdDisks == {d \in Disks : \A r \in 1..Len(Roots) :
                  \A k \in 1..Len(d[r]) : d[r][k] = <<"c">>}

\* the constructor: preload() has started the first load
RegStart ==
  /\ widgets = EmptyMap
  /\ loaded = FALSE
  /\ loadingPromise = 1
  /\ scan = <<NewLoad(0)>>
  /\ loggedDuplicateIds = {}
  /\ warnings = <<>>
  /\ listed = [called |-> FALSE, result |-> {}]
  /\ calls = <<>>
  /\ served = 0
  /\ reloads = 0

InitReg == disk \in Disks /\ RegStart

\* the registry of the other specifications: nothing on disk
RegIdle == disk = [r \in 1..Len(Roots) |-> <<>>] /\ RegStart

\* the registry with bundles that share one id
RegSameId == disk \in SameIdDisks /\ RegStart

\* the first load and listWidgets()
NextReg ==
  \/ \E l \in 1..Len(scan) : ScanNext(l)
  \/ \E l \in 1..Len(scan) : LoadOnceDone(l, TRUE)
  \/ ListWidgets

\* the public calls, without reload()
NextCalls ==
  \/ \E l \in 1..Len(scan) : ScanNext(l)
  \/ \E l \in 1..Len(scan), entryOk \in BOOLEAN : LoadOnceDone(l, entryOk)
  \/ ListWidgets
  \/ \E id \in CallIds : GetDescriptor(id)
  \/ \E id \in CallIds, entryOk \in BOOLEAN : GetHtmlEntryFile(id, entryOk)

\* the public calls and reload()
NextReload ==
  \/ NextCalls
  \/ Reload

\* ========================================================================
\* WidgetManager and the preferences window of WebWidgetContext
\* ========================================================================
\* the instance ids: two widget instances and the add-button instance of
\* the monitor
WidgetIds == {"A", "B"}
AddButtonId == "+"
MgrIds == WidgetIds \cup {AddButtonId}

\* instance configs
Configs == {"c0", "c1"}

\* no host (null)
NoHost ==
  [exists |-> FALSE, view |-> "pending", destroyed |-> FALSE,
   widgetId |-> ""]

\* a host as constructed: its view is being made. view is "pending" while
\* newViewForInstance has not settled, "failed" when it was rejected
\* (_webView stays null), "own" when the view shows
\* ding-widget://<instanceId>/, "other" when it shows something else;
\* widgetId is the params.widgetId it was constructed with
PendingHost ==
  [exists |-> TRUE, view |-> "pending", destroyed |-> FALSE,
   widgetId |-> ""]

\* normalized coordinates are counted in 1/400 (400 is 1.0) and pixel
\* positions in 1/400 of a pixel, so that the product of a
\* normalized coordinate and a grid size is exact
Unit == 400

\* the grid the desktop hands over for the monitor: its normalizedWidth
\* and normalizedHeight in pixels
Grid == [normalizedWidth |-> 1600, normalizedHeight |-> 600]

\* the monitor that has a surface while widgets are displayed
Monitor == 0

\* no record under the id in _instances; config "c0" is {}
NoInst ==
  [present |-> FALSE, isAddButton |-> FALSE, actor |-> FALSE,
   host |-> NoHost, config |-> "c0", hasPreferences |-> FALSE,
   widgetId |-> "", monitorIndex |-> 0, normX |-> 0, normY |-> 0,
   width |-> 0, height |-> 0]

\* this._surfaces.get(monitorIndex) is there
HasSurface(m, monitorIndex) == m.displaying /\ monitorIndex = Monitor

\* the fields of the HtmlWidgetHost that destroy() looks at
AsHost(h) ==
  [NewHost EXCEPT !.destroyed = h.destroyed,
                  !.webView = (h.view \in {"own", "other"}),
                  !.frame = IF h.view \in {"own", "other"} THEN "view"
                            ELSE "empty"]

\* host.destroy() throws
DestroyThrows(h) == HostDestroy(AsHost(h)).threw

\* the state an operation works on: the manager, the context, the posts
\* made so far, whether an exception is propagating, whether the widget
\* state was written
Running(m, c) ==
  [m |-> m, c |-> c, sent |-> <<>>, threw |-> FALSE, wrote |-> FALSE]

\* WidgetManager._stateChanged
StateChanged(s) ==
  IF s.threw \/ s.m.suppress THEN s ELSE [s EXCEPT !.wrote = TRUE]

\* WebWidgetContext.closePreferencesIfAny
ClosePreferencesIfAny(s) ==
  IF s.threw \/ ~s.c.prefsWindow THEN s
  ELSE IF s.c.prefsHost.exists /\ DestroyThrows(s.c.prefsHost)
  THEN [s EXCEPT !.threw = TRUE, !.c.prefsHost.destroyed = TRUE]
  ELSE [s EXCEPT !.c.prefsHost = NoHost,
                 !.c.prefsWindow = FALSE,
                 !.c.prefsInstanceId = "",
                 !.c.windowAlive = FALSE,
                 !.c.windows = IF s.c.windowAlive THEN @ - 1 ELSE @,
                 !.c.hosts = IF s.c.prefsHost.exists THEN @ - 1 ELSE @]

\* WebWidgetContext.closePreferencesForInstance; "" is a missing argument
ClosePreferencesForInstance(s, instanceId) ==
  IF instanceId = "" \/ instanceId # s.c.prefsInstanceId THEN s
  ELSE ClosePreferencesIfAny(s)

\* this._webWidgetContext?.closePreferencesIfAny()
CtxClosePreferencesIfAny(s) ==
  IF s.m.hasContext THEN ClosePreferencesIfAny(s) ELSE s

\* the profiles Enums.CspProfile names
CspProfiles == {"STRICT", "DEV", "RELAXED"}

\* the characters /\s/ matches in the policy texts
Whitespace == {" ", "\n"}

\* WidgetApi.CSP_STRICT, WidgetApi.CSP_DEV, WidgetApi.CSP_RELAXED: the
\* template strings, as their words and the whitespace between them (the
\* first directive and the one that tells the profiles apart)
CSP_STRICT ==
  <<"\n", "default-src", " ", "'none';", "\n",
    "connect-src", " ", "'self'", " ", "https:", " ", ";", "\n">>
CSP_DEV ==
  <<"\n", "default-src", " ", "'none';", "\n",
    "connect-src", "\n", " ", " ", "'self'", "\n", " ", " ", "https:",
    "\n", " ", " ", "http:", "\n", " ", " ", "ws://localhost:*;", "\n">>
CSP_RELAXED ==
  <<"\n", "default-src", " ", "'none';", "\n",
    "base-uri", " ", "'self';", "\n">>

\* a property the module namespace does not export reads as undefined
Undefined == <<"undefined">>

\* the members of the WidgetApi namespace _setCspString reads
WidgetApiMember(name) ==
  CASE name = "CSP_STRICT" -> CSP_STRICT
    [] name = "CSP_DEV" -> CSP_DEV
    [] name = "CSP_RELAXED" -> CSP_RELAXED
    [] OTHER -> Undefined

RECURSIVE CollapseWhitespace(_, _)
\* text.replace(/\s+/g, ' '): every run of whitespace becomes one space;
\* inRun: the character before was whitespace
CollapseWhitespace(text, inRun) ==
  IF text = <<>> THEN <<>>
  ELSE IF Head(text) \in Whitespace
       THEN IF inRun THEN CollapseWhitespace(Tail(text), TRUE)
            ELSE <<" ">> \o CollapseWhitespace(Tail(text), TRUE)
       ELSE <<Head(text)>> \o CollapseWhitespace(Tail(text), FALSE)

RECURSIVE Trim(_)
\* text.trim()
Trim(text) ==
  IF text = <<>> THEN <<>>
  ELSE IF Head(text) \in Whitespace THEN Trim(Tail(text))
  ELSE IF text[Len(text)] \in Whitespace
       THEN Trim(SubSeq(text, 1, Len(text) - 1))
  ELSE text

\* WebWidgetContext._setCspString for Enums.DEFAULT_CSP_PROFILE: the
\* policy it stores, or the TypeError of undefined.replace
SetCspString(profile) ==
  LET cspString ==
        CASE profile = "STRICT" -> WidgetApiMember("CSP_STRICT")
          [] profile = "DEV" -> WidgetApiMember("CSP_DEV")
          [] profile = "RELAXED" -> WidgetApiMember("RELAXED")
          [] OTHER -> <<"STRICT">>
  IN IF cspString = Undefined
     THEN [threw |-> TRUE, cspString |-> <<>>]
     ELSE [threw |-> FALSE,
           cspString |-> Trim(CollapseWhitespace(cspString, FALSE))]

\* the WebKit runtime of a context as constructed: no WebContext, no
\* UserContentManager, _scriptHandlerId 0; the registrations are those
\* the two objects hold
NoRuntime ==
  [webContext |-> FALSE, userContentManager |-> FALSE,
   scheme |-> FALSE, handler |-> FALSE, scriptHandlerId |-> 0,
   userScript |-> FALSE]

\* _initWebKitRuntime without register_uri_scheme
InitWebKitRuntime_NoScheme(r) ==
  IF r.webContext /\ r.userContentManager THEN r
  ELSE [webContext |-> TRUE, userContentManager |-> TRUE,
        scheme |-> FALSE, handler |-> TRUE, scriptHandlerId |-> 1,
        userScript |-> TRUE]

\* WebWidgetContext._initWebKitRuntime: nothing when both objects are
\* there; else a new WebContext and a new UserContentManager, with the
\* dingWidget message handler, the ding-widget scheme, the signal
\* connection and the WIDGET_API user script
InitWebKitRuntime(r) ==
  IF r.webContext /\ r.userContentManager THEN r
  ELSE [webContext |-> TRUE, userContentManager |-> TRUE,
        scheme |-> TRUE, handler |-> TRUE, scriptHandlerId |-> 1,
        userScript |-> TRUE]

\* WebWidgetContext.destroy after closePreferencesIfAny: the signal is
\* disconnected, the message handler unregistered, both objects dropped
\* and with them what was registered on them
DestroyRuntime(r) ==
  LET r1 == IF r.userContentManager /\ r.scriptHandlerId # 0
            THEN [r EXCEPT !.scriptHandlerId = 0] ELSE r
      r2 == IF r1.userContentManager
            THEN [r1 EXCEPT !.handler = FALSE] ELSE r1
  IN [r2 EXCEPT !.userContentManager = FALSE, !.webContext = FALSE,
                !.scheme = FALSE, !.userScript = FALSE]

\* a view can be served by the runtime: both objects and every
\* registration are there
Complete(r) ==
  /\ r.webContext
  /\ r.userContentManager
  /\ r.scheme
  /\ r.handler
  /\ r.scriptHandlerId # 0
  /\ r.userScript

\* WebWidgetContext.newViewForInstance up to new WebKit.WebView: the
\* runtime is set up, then the view is made with its objects
NewWebView(c) ==
  LET r == InitWebKitRuntime(c.runtime) IN
  [c EXCEPT !.runtime = r,
            !.views = IF ~Complete(r) THEN "lacking"
                      ELSE IF @ = "none" THEN "complete" ELSE @]

\* WidgetManager._ensureWebWidgetContext: the constructor leaves a new
\* context with no preferences window and no runtime and sets its policy
EnsureWebWidgetContext(s) ==
  IF s.threw \/ s.m.hasContext THEN s
  ELSE LET csp == SetCspString(s.c.profile) IN
       IF csp.threw THEN [s EXCEPT !.threw = TRUE]
       ELSE [s EXCEPT !.m.hasContext = TRUE,
                      !.c.prefsWindow = FALSE, !.c.prefsHost = NoHost,
                      !.c.prefsInstanceId = "", !.c.windowAlive = FALSE,
                      !.c.runtime = NoRuntime,
                      !.c.cspString = csp.cspString]

\* WidgetManager._stopWebkitIfUnneeded with WebWidgetContext.destroy
StopWebkitIfUnneeded(s) ==
  IF s.threw \/ ~s.m.hasContext THEN s
  ELSE IF \E i \in MgrIds :
            /\ s.m.instances[i].present
            /\ s.m.instances[i].host.exists
            /\ ~s.m.instances[i].host.destroyed
  THEN s
  ELSE LET t == ClosePreferencesIfAny(s) IN
       IF t.threw THEN t
       ELSE [t EXCEPT !.m.hasContext = FALSE,
                      !.c.runtime = DestroyRuntime(@)]

\* WidgetManager._ensureInstanceActor / _createActorForInstance
EnsureInstanceActor(s, i) ==
  IF s.threw \/ ~s.m.displaying \/ s.m.instances[i].actor THEN s
  ELSE LET t == EnsureWebWidgetContext(s) IN
       IF t.threw THEN t
       ELSE [t EXCEPT !.m.instances[i].host =
                        [PendingHost EXCEPT
                           !.widgetId = t.m.instances[i].widgetId],
                      !.m.instances[i].actor = TRUE,
                      !.c = NewWebView(@)]

\* the children without the actor of i: parent.remove(actor)
Without(children, i) == SelectSeq(children, LAMBDA c : c # i)

\* the actor of i has a parent
HasParent(m, i) == \E k \in 1..Len(m.children) : m.children[k] = i

\* grid.getNormalizedCoordinates(x, y): a position in the container to
\* normalized coordinates
GetNormalizedCoordinates(grid, x, y) ==
  <<x \div grid.normalizedWidth, y \div grid.normalizedHeight>>

\* grid.setNormalizedCoordinates(normX, normY): normalized coordinates to
\* a position in the container
SetNormalizedCoordinates(grid, normX, normY) ==
  <<normX * grid.normalizedWidth, normY * grid.normalizedHeight>>

\* getInstanceFrame without the clamp
GetInstanceFrame_NoClamp(it, surface, grid) ==
  LET xy == SetNormalizedCoordinates(grid, it.normX, it.normY) IN
  IF ~surface
  THEN [x |-> 0, y |-> 0, width |-> it.width, height |-> it.height]
  ELSE [x |-> xy[1], y |-> xy[2], width |-> it.width,
        height |-> it.height]

\* WidgetManager.getInstanceFrame for the record it of an instance;
\* surface: the monitor of the instance has a surface
GetInstanceFrame(it, surface, grid) ==
  IF ~surface
  THEN [x |-> 0, y |-> 0, width |-> it.width, height |-> it.height]
  ELSE LET xy == SetNormalizedCoordinates(grid, it.normX, it.normY)
           wNorm == grid.normalizedWidth * Unit
           hNorm == grid.normalizedHeight * Unit
           w == it.width * Unit
           h == it.height * Unit
           x1 == IF xy[1] + w > wNorm THEN wNorm - w ELSE xy[1]
           x == IF wNorm > 0 /\ w <= wNorm
                THEN (IF x1 < 0 THEN 0 ELSE x1) ELSE xy[1]
           y1 == IF xy[2] + h > hNorm THEN hNorm - h ELSE xy[2]
           y == IF hNorm > 0 /\ h <= hNorm
                THEN (IF y1 < 0 THEN 0 ELSE y1) ELSE xy[2]
       IN [x |-> x, y |-> y, width |-> it.width, height |-> it.height]

\* WidgetManager._positionInstanceActor: the actor is put into the
\* container as its last child, or moved there, which is written out
PositionInstanceActor(s, i) ==
  IF s.threw \/ ~s.m.instances[i].actor THEN s
  ELSE IF ~HasSurface(s.m, s.m.instances[i].monitorIndex) THEN s
  ELSE IF ~HasParent(s.m, i)
  THEN [s EXCEPT !.m.children = Append(@, i)]
  ELSE StateChanged(s)

\* WidgetManager._raiseAddButton: insert_before(parent, null) makes the
\* button the last child
RaiseAddButton(s) ==
  IF s.m.displaying /\ s.m.instances[AddButtonId].actor
     /\ HasParent(s.m, AddButtonId)
  THEN [s EXCEPT !.m.children = Append(Without(@, AddButtonId),
                                       AddButtonId)]
  ELSE s

\* WidgetManager._raiseInstance
RaiseInstance(s, i) ==
  IF s.threw \/ ~s.m.instances[i].actor THEN s
  ELSE IF ~HasSurface(s.m, s.m.instances[i].monitorIndex) THEN s
  ELSE IF ~HasParent(s.m, i) THEN s
  ELSE RaiseAddButton([s EXCEPT !.m.children = Append(Without(@, i), i)])

\* Math.abs(a - b) > EPSILON for normalized coordinates, EPSILON = 1e-4
Changed(a, b) ==
  (IF a > b THEN a - b ELSE b - a) * 10000 > Unit

\* WidgetManager.setInstanceFrame; -1 is a width or height of null
SetInstanceFrameIn(s, i, x, y, width, height) ==
  IF s.threw \/ ~s.m.instances[i].present THEN s
  ELSE IF ~HasSurface(s.m, s.m.instances[i].monitorIndex) THEN s
  ELSE LET it == s.m.instances[i]
           n == GetNormalizedCoordinates(s.m.grid, x, y)
           normXChanged == Changed(it.normX, n[1])
           normYChanged == Changed(it.normY, n[2])
           newWidth == width # -1 /\ width # it.width
           newHeight == height # -1 /\ height # it.height
           s1 == [s EXCEPT !.m.instances[i].width =
                              IF newWidth THEN width ELSE @,
                           !.m.instances[i].height =
                              IF newHeight THEN height ELSE @]
       IN IF ~normXChanged /\ ~normYChanged /\ ~newWidth /\ ~newHeight
          THEN s1
          ELSE PositionInstanceActor(
                 [s1 EXCEPT !.m.instances[i].normX = n[1],
                            !.m.instances[i].normY = n[2]], i)

\* WidgetManager._removeActor: the actor leaves its parent before the
\* host is destroyed
RemoveActorOf(s, i) ==
  IF s.threw \/ ~s.m.instances[i].present THEN s
  ELSE LET t == [s EXCEPT !.m.children = Without(@, i)] IN
       IF t.m.instances[i].host.exists /\
          DestroyThrows(t.m.instances[i].host)
       THEN [t EXCEPT !.threw = TRUE,
                      !.m.instances[i].host.destroyed = TRUE]
       ELSE [t EXCEPT !.m.instances[i] = NoInst]

\* WidgetManager.selectInstance; "" is null
SelectInstanceIn(s, instanceId) ==
  IF s.threw THEN s ELSE
  LET old == s.m.selected
      s1 == IF old # "" /\ old # instanceId /\ s.m.instances[old].present
               /\ s.m.instances[old].actor
            THEN CtxClosePreferencesIfAny(s) ELSE s
      s2 == IF s1.threw THEN s1 ELSE [s1 EXCEPT !.m.selected = instanceId]
  IN
  IF s2.threw THEN s2
  ELSE IF instanceId = "" THEN CtxClosePreferencesIfAny(s2)
  ELSE IF ~s2.m.instances[instanceId].present
          \/ ~s2.m.instances[instanceId].actor
          \/ s2.m.instances[instanceId].isAddButton
  THEN LET s3 == [s2 EXCEPT !.m.selected = ""] IN
       IF s3.m.hasContext THEN ClosePreferencesForInstance(s3, "") ELSE s3
  ELSE RaiseInstance(s2, instanceId)

\* WidgetManager.removeInstance
RemoveInstanceIn(s, i) == StateChanged(RemoveActorOf(s, i))


\* the instances in the order the manager goes through _instances
InstanceOrder == <<"A", "B", AddButtonId>>

\* WebWidgetContext.openPreferencesForInstance; hasUri: prefsUri is given
OpenPreferencesForInstance(s, instanceId, hasUri) ==
  IF s.threw \/ instanceId = "" \/ ~hasUri THEN s
  ELSE IF s.m.selected = "" \/ s.m.selected # instanceId THEN s
  ELSE IF s.c.prefsWindow /\ s.c.prefsInstanceId = instanceId THEN s
  ELSE LET t == ClosePreferencesIfAny(s) IN
       IF t.threw \/ ~t.m.instances[instanceId].present THEN t
       ELSE [t EXCEPT !.c = NewWebView(@),
                      !.c.prefsWindow = TRUE,
                      !.c.prefsHost =
                        [PendingHost EXCEPT
                           !.widgetId = t.m.instances[instanceId].widgetId],
                      !.c.prefsInstanceId = instanceId,
                      !.c.windowAlive = TRUE,
                      !.c.windows = @ + 1,
                      !.c.hosts = @ + 1]

\* host.postMessage / host.setHostStatePatch: handed to the view at once,
\* or put on the host's queue
HowPosted(h) ==
  IF HostPostMessage(AsHost(h), <<>>, 1).log # <<>> THEN "sent" ELSE "queued"

\* a post made on a host
Post(s, to, h, i, msg) ==
  [s EXCEPT !.sent = Append(@, [to |-> to, inst |-> i, kind |-> msg.kind,
                                config |-> msg.config,
                                requestId |-> msg.requestId,
                                how |-> HowPosted(h)])]

\* WebWidgetContext._postToWidget
PostToWidget(s, i, msg) ==
  IF ~s.m.instances[i].host.exists THEN s
  ELSE Post(s, "widget", s.m.instances[i].host, i, msg)

\* WebWidgetContext._postToPrefs
PostToPrefs(s, i, msg) ==
  IF s.c.prefsHost.exists /\ s.c.prefsInstanceId = i
  THEN Post(s, "prefs", s.c.prefsHost, i, msg)
  ELSE s

\* WebWidgetContext._postToBoth that forgets the preferences host
PostToBoth_WidgetOnly(s, i, msg) == PostToWidget(s, i, msg)

\* WebWidgetContext._postToBoth
PostToBoth(s, i, msg) == PostToPrefs(PostToWidget(s, i, msg), i, msg)

\* WebWidgetContext._routeAndPost
RouteAndPost(s, mode, i, msg) ==
  IF mode = "prefs" THEN PostToPrefs(s, i, msg)
  ELSE IF mode = "widget" THEN PostToWidget(s, i, msg)
  ELSE PostToBoth(s, i, msg)

\* WebWidgetContext._doWidgetGetConfig
DoWidgetGetConfig(s, i, mode, requestId) ==
  RouteAndPost(s, mode, i,
               [kind |-> "getConfigReply", config |-> s.m.instances[i].config,
                requestId |-> requestId])

\* WebWidgetContext._pushConfigChangedForInstance
PushConfigChangedForInstance(s, i) ==
  PostToBoth(s, i, [kind |-> "configChanged",
                    config |-> s.m.instances[i].config, requestId |-> 0])

\* WebWidgetContext._pushPatchtoTarget (all instances are html ones)
PushPatchToTarget(s, i) ==
  IF ~s.m.instances[i].host.exists THEN s
  ELSE LET msg == [kind |-> "hostState", config |-> "c0", requestId |-> 0]
           t == Post(s, "widget", s.m.instances[i].host, i, msg)
       IN IF t.c.prefsHost.exists /\ i = t.c.prefsInstanceId
          THEN Post(t, "prefs", t.c.prefsHost, i, msg)
          ELSE t

\* WidgetManager.updateInstanceConfig
UpdateInstanceConfig(s, i, newConfig) ==
  IF ~s.m.instances[i].present THEN s
  ELSE StateChanged([s EXCEPT !.m.instances[i].config = newConfig])

\* uri.startsWith(`ding-widget://${instanceId}/`) for the view of the host
UriMatches(h) == h.view = "own"

\* message types
MessageTypes ==
  {"log", "updateConfig", "getConfig", "hostReady", "openPreferences",
   "closePreferences", "unknown"}

\* _dispatchWidgetMessage from the URI test on, for the instance i the
\* payload names, with the view obtained from its host
DispatchBody(s, p) ==
  LET i == p.instanceId IN
  IF ~UriMatches(s.m.instances[i].host) THEN s
  ELSE IF p.type = "updateConfig"
  THEN PushConfigChangedForInstance(
         IF p.config \in Configs THEN UpdateInstanceConfig(s, i, p.config)
         ELSE s, i)
  ELSE IF p.type = "getConfig"
  THEN DoWidgetGetConfig(s, i, p.mode, p.requestId)
  ELSE IF p.type = "hostReady"
  THEN PushConfigChangedForInstance(PushPatchToTarget(s, i), i)
  ELSE IF p.type = "openPreferences"
  THEN IF s.m.instances[i].hasPreferences
       THEN OpenPreferencesForInstance(s, i, TRUE) ELSE s
  ELSE IF p.type = "closePreferences"
  THEN ClosePreferencesForInstance(s, i)
  ELSE s

\* how _dispatchWidgetMessage goes on after it has looked up the instance
\* and called inst.host.getWebViewAsync(): "return", "await" or "go"
DispatchEntry(m, p) ==
  IF p.instanceId \notin MgrIds THEN "return"
  ELSE IF ~m.instances[p.instanceId].present THEN "return"
  ELSE IF ~m.instances[p.instanceId].host.exists THEN "return"
  ELSE IF m.instances[p.instanceId].host.view \in {"pending", "failed"}
  THEN "await"
  ELSE "go"

\* entries of state.instances in one loadState call
MaxEntries == 2

\* a number field of an entry that is missing or null
Missing == -9999

\* v ?? d
Default(v, d) == IF v = Missing THEN d ELSE v

\* an entry of state.instances: null, or an object whose instanceId is
\* "A", "B" or missing ("") and whose widgetId is "w" or missing (""),
\* whose config is "c1", whose hasPreferences is true and whose other
\* fields are missing
NullEntry ==
  [isNull |-> TRUE, instanceId |-> "", widgetId |-> "",
   monitorIndex |-> Missing, normX |-> Missing, normY |-> Missing,
   width |-> Missing, height |-> Missing, config |-> "missing",
   hasPreferences |-> FALSE]
BareEntry(i, w) ==
  [NullEntry EXCEPT !.isNull = FALSE, !.instanceId = i, !.widgetId = w,
                    !.config = "c1", !.hasPreferences = TRUE]
Entries ==
  {NullEntry, BareEntry("A", ""), BareEntry("A", "w"),
   BareEntry("B", "w"), BareEntry("", "w")}

\* the arguments of loadState: null, a value that is no object, an object
\* without instances, an object whose instances is no array, an object
\* with an instances array
NoState == [kind |-> "none", instances |-> <<>>]
States ==
  {[kind |-> k, instances |-> <<>>] :
     k \in {"null", "nonObject", "noInstances", "notArray"}}
    \cup {[kind |-> "array", instances |-> e] :
            e \in UNION {[1..n -> Entries] : n \in 0..MaxEntries}}

\* loadState going on whatever the instances field is
IsArray_Lenient(state) == state.kind \notin {"null", "nonObject"}

\* state is an object and Array.isArray(state.instances)
IsArray(state) == state.kind = "array"

RECURSIVE LoadEntries(_, _, _)
\* the first loop of loadState from entry k on; s.seen is the set seen
LoadEntries(s, e, k) ==
  IF s.threw \/ k > Len(e) THEN s
  ELSE IF e[k].isNull THEN [s EXCEPT !.threw = TRUE]
  ELSE IF e[k].instanceId = "" \/ e[k].widgetId = ""
  THEN LoadEntries(s, e, k + 1)
  ELSE LET i == e[k].instanceId
           old == s.m.instances[i]
           it == [(IF old.present THEN old
                   ELSE [NoInst EXCEPT !.present = TRUE])
                    EXCEPT !.widgetId = e[k].widgetId,
                           !.monitorIndex = Default(e[k].monitorIndex, 0),
                           !.normX = Default(e[k].normX, 0),
                           !.normY = Default(e[k].normY, 0),
                           !.width = Default(e[k].width, 200),
                           !.height = Default(e[k].height, 150),
                           !.config = IF e[k].config = "missing" THEN "c0"
                                      ELSE e[k].config,
                           !.hasPreferences = e[k].hasPreferences]
           s1 == [s EXCEPT !.m.instances[i] = it,
                           !.seen = @ \cup {i}]
       IN IF HasSurface(s1.m, it.monitorIndex)
          THEN LoadEntries(
                 PositionInstanceActor(EnsureInstanceActor(s1, i), i),
                 e, k + 1)
          ELSE LoadEntries(s1, e, k + 1)

RECURSIVE RemoveUnseen(_, _)
\* the second loop of loadState from place k of the instances on
RemoveUnseen(s, k) ==
  IF s.threw \/ k > Len(InstanceOrder) THEN s
  ELSE LET i == InstanceOrder[k] IN
       IF ~s.m.instances[i].present \/ s.m.instances[i].isAddButton
          \/ i \in s.seen
       THEN RemoveUnseen(s, k + 1)
       ELSE RemoveUnseen(RemoveActorOf(s, i), k + 1)

\* WidgetManager.loadState
LoadStateIn(s, state) ==
  IF ~IsArray(state) THEN s
  ELSE LET prevSelection == s.m.selected
           previousSuppressionState == s.m.suppress
           s1 == [m |-> [s.m EXCEPT !.suppress = TRUE], c |-> s.c,
                  sent |-> s.sent, threw |-> s.threw, wrote |-> s.wrote,
                  seen |-> {}]
           s2 == RemoveUnseen(LoadEntries(s1, state.instances, 1), 1)
           s3 == [m |-> s2.m, c |-> s2.c, sent |-> s2.sent,
                  threw |-> s2.threw, wrote |-> s2.wrote]
           s4 == IF s3.threw THEN s3
                 ELSE IF prevSelection # "" /\
                         s3.m.instances[prevSelection].present
                 THEN SelectInstanceIn(s3, prevSelection)
                 ELSE SelectInstanceIn(s3, "")
       IN IF s4.threw THEN s4
          ELSE [s4 EXCEPT !.m.suppress = previousSuppressionState]

\* WidgetManager._computeZIndexByInstanceId: the place among the children
\* of the container for the instances found there, NoZ for the others
NoZ == -1
ComputeZIndexByInstanceId(m) ==
  [i \in MgrIds |->
     IF m.displaying /\ HasParent(m, i) /\ m.instances[i].present
        /\ ~m.instances[i].isAddButton
     THEN (CHOOSE k \in 1..Len(m.children) : m.children[k] = i) - 1
     ELSE NoZ]

\* the comparator of _sortedInstancesForExport for a and b ignoring the
\* stacking index
Compare_MonitorOnly(m, z, a, b) ==
  m.instances[a].monitorIndex - m.instances[b].monitorIndex

\* the comparator of _sortedInstancesForExport for the instances a and b
Compare(m, z, a, b) ==
  IF m.instances[a].monitorIndex # m.instances[b].monitorIndex
  THEN m.instances[a].monitorIndex - m.instances[b].monitorIndex
  ELSE z[a] - z[b]

RECURSIVE InsertSorted(_, _, _, _)
\* a stable sort step: x goes before the first element that compares
\* greater than x
InsertSorted(m, z, sorted, x) ==
  IF sorted = <<>> THEN <<x>>
  ELSE IF Compare(m, z, x, Head(sorted)) < 0 THEN <<x>> \o sorted
  ELSE <<Head(sorted)>> \o InsertSorted(m, z, Tail(sorted), x)

RECURSIVE SortedFrom(_, _, _, _)
\* instances.sort(...) of the instances from place k of _instances on
SortedFrom(m, z, sorted, k) ==
  IF k > Len(InstanceOrder) THEN sorted
  ELSE LET i == InstanceOrder[k] IN
       IF ~m.instances[i].present \/ m.instances[i].isAddButton
       THEN SortedFrom(m, z, sorted, k + 1)
       ELSE SortedFrom(m, z, InsertSorted(m, z, sorted, i), k + 1)

\* WidgetManager._sortedInstancesForExport
SortedInstancesForExport(m, z) == SortedFrom(m, z, <<>>, 1)

\* WidgetManager.exportState
ExportState(m) ==
  LET sortedInstances ==
        SortedInstancesForExport(m, ComputeZIndexByInstanceId(m))
  IN [version |-> 1,
      instances |->
        [k \in 1..Len(sortedInstances) |->
           LET it == m.instances[sortedInstances[k]] IN
           [isNull |-> FALSE, instanceId |-> sortedInstances[k],
            widgetId |-> it.widgetId, monitorIndex |-> it.monitorIndex,
            normX |-> it.normX, normY |-> it.normY,
            width |-> it.width, height |-> it.height,
            config |-> it.config,
            hasPreferences |-> it.hasPreferences]]]

\* _teardownSurface leaving the button with the pseudo-instance
TeardownSurface_KeepsButton(s) ==
  IF s.m.instances[AddButtonId].present
  THEN [s EXCEPT !.m.children = Without(@, AddButtonId),
                 !.m.displaying = FALSE]
  ELSE [s EXCEPT !.m.displaying = FALSE]

\* WidgetManager._teardownSurface for the surface of the monitor, and
\* this._surfaces.clear()
TeardownSurface(s) ==
  IF s.m.instances[AddButtonId].present
  THEN [s EXCEPT !.m.instances[AddButtonId].actor = FALSE,
                 !.m.children = Without(@, AddButtonId),
                 !.m.displaying = FALSE]
  ELSE [s EXCEPT !.m.displaying = FALSE]

\* the larger and the smaller of two numbers
Max2(a, b) == IF a > b THEN a ELSE b
Min2(a, b) == IF a < b THEN a ELSE b

\* WidgetManager._getDefaultAddButtonPosition, left to right
DefaultAddButtonPosition(grid, it) ==
  LET margin == 32
      maxX == Max2(0, grid.normalizedWidth - it.width)
      maxY == Max2(0, grid.normalizedHeight - it.height)
      desiredY == grid.normalizedHeight - it.height - margin
  IN <<Max2(0, Min2(margin, maxX)) * Unit,
       Max2(0, Min2(desiredY, maxY)) * Unit>>

\* WidgetManager._ensureAddWidgetButton for the new surface
EnsureAddWidgetButton(s) ==
  LET existingInst == s.m.instances[AddButtonId]
      it == IF existingInst.present
            THEN [existingInst EXCEPT !.actor = TRUE,
                                      !.monitorIndex = Monitor]
            ELSE [NoInst EXCEPT !.present = TRUE, !.isAddButton = TRUE,
                                !.actor = TRUE,
                                !.widgetId = "__ding-add-button",
                                !.monitorIndex = Monitor,
                                !.width = 64, !.height = 64]
      s1 == [s EXCEPT !.m.instances[AddButtonId] = it,
                      !.m.children = Append(@, AddButtonId)]
      xy == DefaultAddButtonPosition(s.m.grid, it)
  IN RaiseAddButton(
       IF ~existingInst.present
       THEN SetInstanceFrameIn(s1, AddButtonId, xy[1], xy[2],
                               it.width, it.height)
       ELSE PositionInstanceActor(s1, AddButtonId))

\* WidgetManager._rebuildSurfacesFrom; hasGrid: desktops holds the grid
\* of the monitor
RebuildSurfacesFrom(s, hasGrid) ==
  LET t == IF s.m.displaying THEN TeardownSurface(s) ELSE s IN
  IF ~hasGrid THEN t
  ELSE EnsureAddWidgetButton([t EXCEPT !.m.displaying = TRUE,
                                       !.m.grid = Grid])

RECURSIVE DetachInstancesWithoutSurface_Deletes(_, _)
\* _detachInstancesWithoutSurface deleting the record of the instance it
\* detaches
DetachInstancesWithoutSurface_Deletes(s, k) ==
  IF s.threw \/ k > Len(InstanceOrder) THEN s
  ELSE LET i == InstanceOrder[k]
           it == s.m.instances[i]
           t == [s EXCEPT !.m.children = Without(@, i)]
       IN IF ~it.present \/ it.isAddButton
             \/ HasSurface(s.m, it.monitorIndex)
          THEN DetachInstancesWithoutSurface_Deletes(s, k + 1)
          ELSE IF it.host.exists /\ DestroyThrows(it.host)
          THEN [t EXCEPT !.threw = TRUE,
                         !.m.instances[i].host.destroyed = TRUE]
          ELSE DetachInstancesWithoutSurface_Deletes(
                 [t EXCEPT !.m.instances[i] = NoInst], k + 1)

RECURSIVE DetachInstancesWithoutSurface(_, _)
\* WidgetManager._detachInstancesWithoutSurface from place k on
DetachInstancesWithoutSurface(s, k) ==
  IF s.threw \/ k > Len(InstanceOrder) THEN s
  ELSE LET i == InstanceOrder[k]
           it == s.m.instances[i]
           t == [s EXCEPT !.m.children = Without(@, i)]
       IN IF ~it.present \/ it.isAddButton
             \/ HasSurface(s.m, it.monitorIndex)
          THEN DetachInstancesWithoutSurface(s, k + 1)
          ELSE IF it.host.exists /\ DestroyThrows(it.host)
          THEN [t EXCEPT !.threw = TRUE,
                         !.m.instances[i].host.destroyed = TRUE]
          ELSE DetachInstancesWithoutSurface(
                 [t EXCEPT !.m.instances[i].host = NoHost,
                           !.m.instances[i].actor = FALSE], k + 1)

RECURSIVE ReattachAllInstances(_, _)
\* WidgetManager._reattachAllInstances from place k on
ReattachAllInstances(s, k) ==
  IF s.threw \/ ~s.m.displaying \/ k > Len(InstanceOrder) THEN s
  ELSE LET i == InstanceOrder[k] IN
       IF ~s.m.instances[i].present
          \/ ~HasSurface(s.m, s.m.instances[i].monitorIndex)
       THEN ReattachAllInstances(s, k + 1)
       ELSE ReattachAllInstances(
              PositionInstanceActor(EnsureInstanceActor(s, i), i), k + 1)

\* WidgetManager.applyLayoutChange with changeInfo.redisplay
ApplyLayoutChangeIn(s, hasGrid) ==
  StopWebkitIfUnneeded(
    ReattachAllInstances(
      DetachInstancesWithoutSurface(RebuildSurfacesFrom(s, hasGrid), 1), 1))

RECURSIVE StopHosts(_, _)
\* the loop of stopWidgetDisplay over the instances from place k on
StopHosts(s, k) ==
  IF s.threw \/ k > Len(InstanceOrder) THEN s
  ELSE LET i == InstanceOrder[k]
           it == s.m.instances[i]
       IN IF ~it.present THEN StopHosts(s, k + 1)
          ELSE IF it.host.exists /\ DestroyThrows(it.host)
          THEN [s EXCEPT !.threw = TRUE,
                         !.m.instances[i].host.destroyed = TRUE]
          ELSE StopHosts([s EXCEPT !.m.instances[i].host = NoHost,
                                   !.m.instances[i].actor = FALSE], k + 1)

\* WidgetManager.clearFromGrids: every actor leaves its parent and the
\* surface is torn down
ClearFromGrids(s) == TeardownSurface([s EXCEPT !.m.children = <<>>])

\* WidgetManager.stopWidgetDisplay
StopWidgetDisplayIn(s) ==
  StateChanged(StopWebkitIfUnneeded(StopHosts(ClearFromGrids(s), 1)))

\* the payloads of the messages a page can post to the dingWidget handler;
\* "Z" is the id of no instance, "" a missing id, "none" a missing mode,
\* "notObject" a config that is no object; the messages that are dropped
\* before the instance is looked up (log, no id) and the unknown type
\* come once
PayloadIds == WidgetIds \cup {"Z"}
NoPayload ==
  [type |-> "none", instanceId |-> "", mode |-> "none", config |-> "c0",
   requestId |-> 0]
Payloads ==
  {[NoPayload EXCEPT !.type = "log", !.instanceId = "A"],
   [NoPayload EXCEPT !.type = "unknown", !.instanceId = "A"],
   [NoPayload EXCEPT !.type = "hostReady"]}
    \cup {[NoPayload EXCEPT !.type = t, !.instanceId = i] :
            t \in {"hostReady", "openPreferences", "closePreferences"},
            i \in PayloadIds}
    \cup {[NoPayload EXCEPT !.type = "updateConfig", !.instanceId = i,
                            !.config = c] :
            i \in PayloadIds, c \in {"c1", "notObject"}}
    \cup {[NoPayload EXCEPT !.type = "getConfig", !.instanceId = i,
                            !.mode = m, !.requestId = 1] :
            i \in PayloadIds, m \in {"widget", "prefs", "none"}}

\* window.ding.getConfig() of the injected script in the page of
\* instance i: the message it posts
WindowDingGetConfig(i) ==
  [NoPayload EXCEPT !.type = "getConfig", !.instanceId = i,
                    !.requestId = 1]

\* no dispatch is waiting for a view
NoWait == NoPayload

\* the last operation: its name, the payload
\* and the page of a message, the argument of loadState, whether it threw,
\* whether it wrote the widget state, the frame getInstanceFrame returned
NoOp ==
  [name |-> "none", payload |-> NoPayload, src |-> "none", sender |-> "",
   state |-> NoState, threw |-> FALSE, wrote |-> FALSE,
   frame |-> [x |-> 0, y |-> 0, width |-> 0, height |-> 0]]

\* the operation has run to s; a dispatch that waits for a view stays
\* with the context it was started on, also when the manager drops it
Done(s, o) ==
  /\ mgr' = s.m
  /\ ctx' = [s.c EXCEPT !.stale = @ \/ (wait # NoWait /\ mgr.hasContext
                                          /\ ~s.m.hasContext)]
  /\ sent' = s.sent
  /\ lastOp' = [o EXCEPT !.threw = s.threw, !.wrote = s.wrote]

\* preference windows left to contexts the manager has dropped
MaxGhosts == 1

\* a context with profile as Enums.DEFAULT_CSP_PROFILE that was not
\* constructed yet: no window, no policy, no runtime, no view made
NoContext(profile) ==
  [prefsWindow |-> FALSE, prefsHost |-> NoHost, prefsInstanceId |-> "",
   windowAlive |-> FALSE, windows |-> 0, hosts |-> 0, ghosts |-> 0,
   stale |-> FALSE, profile |-> profile, cspString |-> <<>>,
   runtime |-> NoRuntime, droppedRuntime |-> NoRuntime, views |-> "none"]

\* a context after destroy()
DroppedContext == NoContext("STRICT")

\* the context c the manager has dropped, after its destroy(): it keeps
\* its policy
Dropped(c) ==
  [DroppedContext EXCEPT !.profile = c.profile,
                         !.cspString = c.cspString,
                         !.views = c.views]

\* a dispatch goes on in a context the manager has dropped: the window it
\* opens belongs to that context, and the runtime it is served by is
\* kept as droppedRuntime
DoneDropped(s, o) ==
  /\ mgr' = s.m
  /\ ctx' = [ctx EXCEPT !.stale = FALSE, !.ghosts = @ + s.c.windows,
                        !.droppedRuntime = IF s.c.windows > 0
                                           THEN s.c.runtime ELSE @,
                        !.views = s.c.views]
  /\ sent' = s.sent
  /\ lastOp' = [o EXCEPT !.threw = s.threw, !.wrote = s.wrote]

\* WidgetManager.createInstanceForWidget once the descriptor is there;
\* i is the fresh id, hasPrefs says whether the descriptor names a
\* preferences page
CreateInstanceForWidget(i, hasPrefs) ==
  /\ ~mgr.instances[i].present
  /\ mgr.displaying
  /\ LET s == Running(mgr, ctx)
         width == 200
         height == 150
         x == Max2(0, ((mgr.grid.normalizedWidth - width) * Unit) \div 2)
         y == Max2(0, ((mgr.grid.normalizedHeight - height) * Unit) \div 3)
         n == GetNormalizedCoordinates(mgr.grid, x, y)
         s1 == [s EXCEPT !.m.instances[i] =
                   [NoInst EXCEPT !.present = TRUE,
                                  !.widgetId = "w",
                                  !.monitorIndex = Monitor,
                                  !.normX = n[1], !.normY = n[2],
                                  !.width = width, !.height = height]]
         s2 == PositionInstanceActor(EnsureInstanceActor(s1, i), i)
     IN Done(StateChanged(
               [s2 EXCEPT !.m.instances[i].hasPreferences = hasPrefs]),
             [NoOp EXCEPT !.name = "createInstanceForWidget"])
  /\ UNCHANGED wait
  /\ UNCHANGED <<uriVars, hostVars, regVars, shellVars>>

\* newViewForInstance settles for the host of instance i: the view shows
\* the widget's page or the fallback document, or there is no view; a
\* dispatch that waited for the view goes on
HostViewDone(i, view) ==
  /\ mgr.instances[i].present
  /\ mgr.instances[i].host.exists
  /\ mgr.instances[i].host.view = "pending"
  /\ LET m1 == [mgr EXCEPT !.instances[i].host.view = view]
         o == [NoOp EXCEPT !.name = "resume", !.payload = wait]
     IN IF wait # NoWait /\ wait.instanceId = i
        THEN /\ wait' = NoWait
             /\ IF view = "failed"
                THEN Done(Running(m1, [ctx EXCEPT !.stale = FALSE]),
                          [NoOp EXCEPT !.name = "viewDone"])
                ELSE IF ctx.stale
                THEN /\ ctx.ghosts < MaxGhosts
                     /\ DoneDropped(
                          DispatchBody(Running(m1, Dropped(ctx)), wait),
                          [o EXCEPT !.src = "dropped"])
                ELSE Done(DispatchBody(Running(m1, ctx), wait), o)
        ELSE /\ Done(Running(m1, ctx),
                     [NoOp EXCEPT !.name = "viewDone"])
             /\ UNCHANGED wait
  /\ UNCHANGED <<uriVars, hostVars, regVars, shellVars>>

\* newViewForInstance settles for the preferences host
PrefsViewDone(view) ==
  /\ ctx.prefsHost.exists
  /\ ctx.prefsHost.view = "pending"
  /\ Done(Running(mgr, [ctx EXCEPT !.prefsHost.view = view]),
          [NoOp EXCEPT !.name = "prefsViewDone"])
  /\ UNCHANGED wait
  /\ UNCHANGED <<uriVars, hostVars, regVars, shellVars>>

\* the page in the view of instance i goes to another URL
Navigated(i) ==
  /\ mgr.instances[i].present
  /\ mgr.instances[i].host.exists
  /\ mgr.instances[i].host.view = "own"
  /\ Done(Running([mgr EXCEPT !.instances[i].host.view = "other"], ctx),
          [NoOp EXCEPT !.name = "navigated"])
  /\ UNCHANGED wait
  /\ UNCHANGED <<uriVars, hostVars, regVars, shellVars>>

\* WidgetManager.stopWidgetDisplay
StopWidgetDisplayAll ==
  /\ Done(StopWidgetDisplayIn(Running(mgr, ctx)),
          [NoOp EXCEPT !.name = "stopWidgetDisplay"])
  /\ UNCHANGED wait
  /\ UNCHANGED <<uriVars, hostVars, regVars, shellVars>>

\* WidgetManager.clearFromGrids
ClearFromGridsAll ==
  /\ Done(ClearFromGrids(Running(mgr, ctx)),
          [NoOp EXCEPT !.name = "clearFromGrids"])
  /\ UNCHANGED wait
  /\ UNCHANGED <<uriVars, hostVars, regVars, shellVars>>

\* WidgetManager.applyLayoutChange
ApplyLayoutChange(hasGrid) ==
  /\ Done(ApplyLayoutChangeIn(Running(mgr, ctx), hasGrid),
          [NoOp EXCEPT !.name = "applyLayoutChange"])
  /\ UNCHANGED wait
  /\ UNCHANGED <<uriVars, hostVars, regVars, shellVars>>

\* WidgetManager.removeInstance(i)
RemoveInstanceById(i) ==
  /\ mgr.instances[i].present
  /\ Done(RemoveInstanceIn(Running(mgr, ctx), i),
          [NoOp EXCEPT !.name = "removeInstance"])
  /\ UNCHANGED wait
  /\ UNCHANGED <<uriVars, hostVars, regVars, shellVars>>

\* WidgetManager.selectInstance(i); "" is null
SelectInstance(i) ==
  /\ Done(SelectInstanceIn(Running(mgr, ctx), i),
          [NoOp EXCEPT !.name = "selectInstance"])
  /\ UNCHANGED wait
  /\ UNCHANGED <<uriVars, hostVars, regVars, shellVars>>

\* WidgetManager.clearSelectedInstance
ClearSelectedInstance ==
  /\ Done(Running([mgr EXCEPT !.selected = ""], ctx),
          [NoOp EXCEPT !.name = "clearSelectedInstance"])
  /\ UNCHANGED wait
  /\ UNCHANGED <<uriVars, hostVars, regVars, shellVars>>

\* WidgetManager._openPreferencesForSelectedInstance
OpenPreferencesForSelectedInstance ==
  /\ LET s == Running(mgr, ctx) IN
     IF mgr.selected = "" \/ ~mgr.instances[mgr.selected].present
        \/ ~mgr.instances[mgr.selected].hasPreferences
     THEN Done(s, [NoOp EXCEPT !.name = "openPreferences"])
     ELSE Done(OpenPreferencesForInstance(EnsureWebWidgetContext(s),
                                          mgr.selected, TRUE),
               [NoOp EXCEPT !.name = "openPreferences"])
  /\ UNCHANGED wait
  /\ UNCHANGED <<uriVars, hostVars, regVars, shellVars>>

\* the 'close-request' handler of the preferences window: the window goes
\* away whether the handler returns false or throws
PrefsCloseRequest ==
  /\ ctx.windowAlive
  /\ LET s == Running(mgr, [ctx EXCEPT !.windowAlive = FALSE,
                                       !.windows = @ - 1])
     IN IF ctx.prefsHost.exists /\ DestroyThrows(ctx.prefsHost)
        THEN Done([s EXCEPT !.threw = TRUE,
                            !.c.prefsHost.destroyed = TRUE],
                  [NoOp EXCEPT !.name = "closeRequest"])
        ELSE Done([s EXCEPT !.c.prefsHost = NoHost,
                            !.c.prefsWindow = FALSE,
                            !.c.prefsInstanceId = "",
                            !.c.hosts = IF ctx.prefsHost.exists
                                        THEN @ - 1 ELSE @],
                  [NoOp EXCEPT !.name = "closeRequest"])
  /\ UNCHANGED wait
  /\ UNCHANGED <<uriVars, hostVars, regVars, shellVars>>

\* the pages that can post a message: the page in the view of an
\* instance ("widget") and the page in the preferences view ("prefs")
PageOf(i, src) ==
  IF src = "widget"
  THEN mgr.instances[i].present /\ mgr.instances[i].host.exists
       /\ mgr.instances[i].host.view = "own"
  ELSE ctx.prefsHost.exists /\ ctx.prefsInstanceId = i
       /\ ctx.prefsHost.view = "own"

\* _onWidgetScriptMessage with _dispatchWidgetMessage for the payload p
Receive(p, o) ==
  /\ mgr.hasContext
  /\ LET s == Running(mgr, ctx)
         entry == DispatchEntry(mgr, p)
     IN IF p.type = "log" \/ p.instanceId = "" \/ entry = "return"
        THEN Done(s, o) /\ UNCHANGED wait
        ELSE IF entry = "await"
        THEN IF mgr.instances[p.instanceId].host.view = "pending"
             THEN wait = NoWait /\ wait' = p /\ Done(s, o)
             ELSE Done(s, o) /\ UNCHANGED wait
        ELSE Done(DispatchBody(s, p), o) /\ UNCHANGED wait
  /\ UNCHANGED <<uriVars, hostVars, regVars, shellVars>>

\* some page posts a message of its own making
OnWidgetScriptMessage(p) ==
  /\ \E i \in WidgetIds, src \in {"widget", "prefs"} : PageOf(i, src)
  /\ Receive(p, [NoOp EXCEPT !.name = "message", !.payload = p])

\* the page src of instance i calls window.ding.getConfig()
GetConfig(i, src) ==
  /\ PageOf(i, src)
  /\ Receive(WindowDingGetConfig(i),
             [NoOp EXCEPT !.name = "window.ding.getConfig",
                          !.payload = WindowDingGetConfig(i), !.src = src])

\* WidgetManager.loadState(state)
LoadState(state) ==
  /\ Done(LoadStateIn(Running(mgr, ctx), state),
          [NoOp EXCEPT !.name = "loadState", !.state = state])
  /\ UNCHANGED wait
  /\ UNCHANGED <<uriVars, hostVars, regVars, shellVars>>

\* where a persisted instance is: a monitor, normalized coordinates (200
\* is 0.5, 600 is 1.5, -40 is -0.1) and a config
Placements ==
  {[monitorIndex |-> 0, normX |-> 200, normY |-> 100, config |-> "c1"],
   [monitorIndex |-> 1, normX |-> 600, normY |-> -40, config |-> "c0"]}

\* an entry with every field but the size, for instance i at p
PlacedEntry(i, p) ==
  [BareEntry(i, "w") EXCEPT !.monitorIndex = p.monitorIndex,
                            !.normX = p.normX, !.normY = p.normY,
                            !.config = p.config]

\* the well-formed states: {version: 1, instances: [...]} whose entries
\* are objects with distinct instance ids
WellFormedStates ==
  {[kind |-> "array", instances |-> e] :
     e \in {<<>>}
       \cup {<<PlacedEntry(i, p)>> : i \in WidgetIds, p \in Placements}
       \cup {<<PlacedEntry(ij[1], p), PlacedEntry(ij[2], q)>> :
               ij \in {ij \in WidgetIds \X WidgetIds : ij[1] # ij[2]},
               p \in Placements, q \in Placements}}

\* the positions a widget is dragged to, in the container
DragPositions == {<<400 * Unit, 300 * Unit>>}

\* WidgetManager.setInstanceFrame(i, x, y)
SetInstanceFrame(i, x, y) ==
  /\ mgr.instances[i].present
  /\ Done(SetInstanceFrameIn(Running(mgr, ctx), i, x, y, -1, -1),
          [NoOp EXCEPT !.name = "setInstanceFrame"])
  /\ UNCHANGED wait
  /\ UNCHANGED <<uriVars, hostVars, regVars, shellVars>>

\* WidgetManager.getInstanceFrame(i)
GetInstanceFrameOf(i) ==
  /\ mgr.instances[i].present
  /\ Done(Running(mgr, ctx),
          [NoOp EXCEPT !.name = "getInstanceFrame",
                       !.frame = GetInstanceFrame(
                                   mgr.instances[i],
                                   HasSurface(mgr,
                                     mgr.instances[i].monitorIndex),
                                   mgr.grid)])
  /\ UNCHANGED wait
  /\ UNCHANGED <<uriVars, hostVars, regVars, shellVars>>

\* the manager and the context as constructed: no instance, no surface,
\* nothing selected, no context yet
InitMgr ==
  /\ mgr = [instances |-> [i \in MgrIds |-> NoInst], selected |-> "",
            suppress |-> FALSE, displaying |-> FALSE,
            hasContext |-> FALSE, children |-> <<>>, grid |-> Grid]
  /\ ctx = NoContext("STRICT")
  /\ sent = <<>>
  /\ wait = NoWait
  /\ lastOp = NoOp

\* the manager and the context left alone
MgrIdle == InitMgr

\* the manager holding a context whose runtime serves views, left alone
MgrServing ==
  /\ mgr = [instances |-> [i \in MgrIds |-> NoInst], selected |-> "",
            suppress |-> FALSE, displaying |-> FALSE,
            hasContext |-> TRUE, children |-> <<>>, grid |-> Grid]
  /\ ctx = NewWebView([NoContext("STRICT") EXCEPT
                         !.cspString = SetCspString("STRICT").cspString])
  /\ sent = <<>>
  /\ wait = NoWait
  /\ lastOp = NoOp

\* the manager as constructed, for each profile the build can be
\* configured with
InitCsp ==
  /\ mgr = [instances |-> [i \in MgrIds |-> NoInst], selected |-> "",
            suppress |-> FALSE, displaying |-> FALSE,
            hasContext |-> FALSE, children |-> <<>>, grid |-> Grid]
  /\ \E profile \in CspProfiles : ctx = NoContext(profile)
  /\ sent = <<>>
  /\ wait = NoWait
  /\ lastOp = NoOp

\* the requests the pages of instance A make
CspUris ==
  {[kind |-> "ok", host |-> h, path |-> <<"/", "a">>] : h \in {"A", ""}}

\* the context's policy: one instance is created and shown, its view asks
\* for files
NextCsp ==
  \/ ApplyLayoutChange(TRUE)
  \/ CreateInstanceForWidget("A", TRUE)
  \/ HostViewDone("A", "own")
  \/ StopWidgetDisplayAll
  \/ CreateInstance("A")
  \/ \E v \in ViewIds : NewViewForInstance(v, "A")
  \/ \E v \in ViewIds, uri \in CspUris : OnDingWidgetUriRequest(v, uri)
  \/ \E gotBytes, built \in BOOLEAN : LoadBytesDone(gotBytes, built)

\* the messages of the pages, with one widget instance
NextMsg ==
  \/ \E hasPrefs \in BOOLEAN : CreateInstanceForWidget("A", hasPrefs)
  \/ \E view \in {"own", "other", "failed"} : HostViewDone("A", view)
  \/ \E view \in {"own", "other", "failed"} : PrefsViewDone(view)
  \/ Navigated("A")
  \/ StopWidgetDisplayAll
  \/ ApplyLayoutChange(TRUE)
  \/ SelectInstance("A")
  \/ OpenPreferencesForSelectedInstance
  \/ \E p \in Payloads : p.instanceId # "B" /\ OnWidgetScriptMessage(p)
  \/ \E src \in {"widget", "prefs"} : GetConfig("A", src)

\* the preferences window, with two widget instances
NextPrefs ==
  \/ \E i \in WidgetIds : CreateInstanceForWidget(i, TRUE)
  \/ \E i \in WidgetIds : HostViewDone(i, "own")
  \/ PrefsViewDone("own")
  \/ \E hasGrid \in BOOLEAN : ApplyLayoutChange(hasGrid)
  \/ \E i \in WidgetIds : RemoveInstanceById(i)
  \/ \E i \in MgrIds \cup {""} : SelectInstance(i)
  \/ ClearSelectedInstance
  \/ OpenPreferencesForSelectedInstance
  \/ PrefsCloseRequest
  \/ \E p \in Payloads :
       /\ p.type \in {"openPreferences", "closePreferences"}
       /\ p.instanceId \in WidgetIds
       /\ OnWidgetScriptMessage(p)

\* the persisted state and the placement, with two widget instances
NextState ==
  \/ \E i \in WidgetIds : CreateInstanceForWidget(i, TRUE)
  \/ \E i \in WidgetIds : HostViewDone(i, "own")
  \/ \E hasGrid \in BOOLEAN : ApplyLayoutChange(hasGrid)
  \/ \E i \in WidgetIds : SelectInstance(i)
  \/ \E i \in WidgetIds, xy \in DragPositions :
       SetInstanceFrame(i, xy[1], xy[2])
  \/ \E state \in WellFormedStates : LoadState(state)

\* the grids, the normalized coordinates and the sizes getInstanceFrame
\* is called with
FrameGrids ==
  {[normalizedWidth |-> 1000, normalizedHeight |-> 800],
   [normalizedWidth |-> 1600, normalizedHeight |-> 600]}
FrameNorms == {-100, 0, 200, 300, 400, 600}
FrameWidths == {200, 1000}
FrameHeights == {150, 600}

\* a manager with a surface and instance A placed somewhere on it
InitFrame ==
  /\ \E grid \in FrameGrids, normX \in FrameNorms, normY \in FrameNorms,
        width \in FrameWidths, height \in FrameHeights :
       mgr = [instances |->
                [i \in MgrIds |->
                   IF i = "A"
                   THEN [NoInst EXCEPT !.present = TRUE, !.widgetId = "w",
                                       !.monitorIndex = Monitor,
                                       !.normX = normX, !.normY = normY,
                                       !.width = width, !.height = height]
                   ELSE NoInst],
              selected |-> "", suppress |-> FALSE, displaying |-> TRUE,
              hasContext |-> FALSE, children |-> <<>>, grid |-> grid]
  /\ ctx = DroppedContext
  /\ sent = <<>>
  /\ wait = NoWait
  /\ lastOp = NoOp

\* getInstanceFrame on every placement
NextFrame ==
  \/ GetInstanceFrameOf("A")
  \/ \E xy \in DragPositions : SetInstanceFrame("A", xy[1], xy[2])

\* the surfaces come and go under two widget instances
NextLayout ==
  \/ \E hasGrid \in BOOLEAN : ApplyLayoutChange(hasGrid)
  \/ ClearFromGridsAll
  \/ StopWidgetDisplayAll
  \/ CreateInstanceForWidget("A", TRUE)
  \/ \E i \in WidgetIds : HostViewDone(i, "own")
  \/ \E i \in WidgetIds : SelectInstance(i)
  \/ \E i \in WidgetIds : RemoveInstanceById(i)
  \/ \E state \in WellFormedStates : LoadState(state)

\* loadState, with two widget instances
NextLoad ==
  \/ CreateInstanceForWidget("A", TRUE)
  \/ \E i \in WidgetIds : HostViewDone(i, "own")
  \/ ApplyLayoutChange(TRUE)
  \/ SelectInstance("A")
  \/ \E state \in States : LoadState(state)


\* ------------------------------------------------------------------------
\* Specifications
\* ------------------------------------------------------------------------
\* ---- WindowManager: what changed between two desktop lists ----

\* null in an index field
NoIndex == -1

\* the monitors a desktop list may hold
MaxMonitors == 2

\* a desktop description: the monitor's geometry, zoom and index, and the
\* margins of its grid; only x, monitorIndex and marginTop vary: a
\* monitor, the same monitor with another margin, and another monitor
Area(x, monitorIndex, marginTop) ==
  [x |-> x, y |-> 0, width |-> 1920, height |-> 1080, zoom |-> 1,
   monitorIndex |-> monitorIndex, marginTop |-> marginTop,
   marginBottom |-> 0, marginLeft |-> 0, marginRight |-> 0]
Areas == {Area(0, 0, 0), Area(0, 0, 32), Area(1920, 1, 0)}

\* the argument of updateGridWindows: the desktops, and the primaryMonitor
\* field of the first of them (an index into the list, counted from 0)
DesktopLists ==
  {[areas |-> a, primaryMonitor |-> p] :
     a \in UNION {[1..n -> Areas] : n \in 1..MaxMonitors}, p \in {0, 1}}
    \cup {[areas |-> <<>>, primaryMonitor |-> NoIndex]}

\* no change info computed yet
NoInfo ==
  [computed |-> FALSE, threw |-> FALSE, firstDesktop |-> FALSE,
   monitorCountChanged |-> FALSE, monitorschangedList |-> <<>>,
   gridschangedList |-> <<>>, monitorschanged |-> FALSE,
   gridschanged |-> FALSE, redisplay |-> FALSE]

\* the WindowManager as its constructor leaves it, for the list it is given
NewWindowManager(desktopList) ==
  [desktopList |-> desktopList, priorDesktopList |-> <<>>,
   primaryIndex |-> NoIndex, primaryMonitorIndex |-> NoIndex,
   priorPrimaryIndex |-> NoIndex, priorPrimaryMonitorIndex |-> NoIndex,
   info |-> NoInfo]

\* WindowManager._updatePrimaryStateAndZoomInfo; the result has threw set
\* when _primaryScreen is null and its monitorIndex is read
UpdatePrimaryStateAndZoomInfo(w, newdesktoplist) ==
  LET priorPrimaryIndex == w.primaryIndex
      priorPrimaryMonitorIndex ==
        IF w.primaryMonitorIndex = NoIndex THEN 0
        ELSE w.primaryMonitorIndex
      newPrimaryIndex ==
        IF Len(newdesktoplist.areas) > 0 THEN newdesktoplist.primaryMonitor
        ELSE NoIndex
      primaryIndex ==
        IF newPrimaryIndex # priorPrimaryIndex THEN newPrimaryIndex
        ELSE w.primaryIndex
      w1 == [w EXCEPT !.priorPrimaryIndex = priorPrimaryIndex,
                      !.priorPrimaryMonitorIndex = priorPrimaryMonitorIndex,
                      !.primaryIndex = primaryIndex]
  IN IF primaryIndex = NoIndex \/ primaryIndex + 1 > Len(w1.desktopList)
     THEN [w1 EXCEPT !.info.threw = TRUE]
     ELSE [w1 EXCEPT !.primaryMonitorIndex =
                        w1.desktopList[primaryIndex + 1].monitorIndex]

\* the monitor of the two descriptions differs: geometry, zoom or index
MonitorDiffers(area, area2) ==
  \/ area.x # area2.x
  \/ area.y # area2.y
  \/ area.width # area2.width
  \/ area.height # area2.height
  \/ area.zoom # area2.zoom
  \/ area.monitorIndex # area2.monitorIndex

\* the margins of the two descriptions differ
MarginsDiffer(area, area2) ==
  \/ area.marginTop # area2.marginTop
  \/ area.marginBottom # area2.marginBottom
  \/ area.marginLeft # area2.marginLeft
  \/ area.marginRight # area2.marginRight

\* the indexes the forEach of _computeDesktopChangeInfo pushes onto
\* monitorschangedList, counted from 1
MonitorsChangedList(newAreas, priorAreas) ==
  SelectSeq([k \in 1..Len(newAreas) |-> k],
            LAMBDA k : \/ k > Len(priorAreas)
                       \/ MonitorDiffers(newAreas[k], priorAreas[k]))

\* the indexes it pushes onto gridschangedList
GridsChangedList(newAreas, priorAreas) ==
  SelectSeq([k \in 1..Len(newAreas) |-> k],
            LAMBDA k : \/ k > Len(priorAreas)
                       \/ MonitorDiffers(newAreas[k], priorAreas[k])
                       \/ MarginsDiffer(newAreas[k], priorAreas[k]))

\* list.includes(i)
Includes(list, i) == \E k \in 1..Len(list) : list[k] = i

\* gridschanged: some grid changed whose monitor did not
GridsChanged(gridschangedList, monitorschangedList) ==
  IF gridschangedList # <<>>
  THEN \E k \in 1..Len(gridschangedList) :
         ~Includes(monitorschangedList, gridschangedList[k])
  ELSE FALSE

\* WindowManager._computeDesktopChangeInfo(newDesktopList)
ComputeDesktopChangeInfo(w, newDesktopList) ==
  LET priorDesktopList == w.desktopList
      w1 == UpdatePrimaryStateAndZoomInfo(
              [w EXCEPT !.priorDesktopList = priorDesktopList,
                        !.desktopList = newDesktopList.areas,
                        !.info = [NoInfo EXCEPT !.computed = TRUE]],
              newDesktopList)
      firstDesktop == Len(priorDesktopList) = 0
      monitorCountChanged ==
        Len(priorDesktopList) # Len(newDesktopList.areas)
      monitorschangedList ==
        MonitorsChangedList(newDesktopList.areas, priorDesktopList)
      gridschangedList ==
        GridsChangedList(newDesktopList.areas, priorDesktopList)
      indexChanged == w1.priorPrimaryMonitorIndex # w1.primaryMonitorIndex
      monitorschanged == monitorschangedList # <<>> \/ indexChanged
      gridschanged == GridsChanged(gridschangedList, monitorschangedList)
  IN IF w1.info.threw THEN w1
     ELSE IF firstDesktop
     THEN [w1 EXCEPT !.info.firstDesktop = TRUE,
                     !.info.monitorCountChanged = monitorCountChanged]
     ELSE [w1 EXCEPT !.info.monitorCountChanged = monitorCountChanged,
                     !.info.monitorschangedList = monitorschangedList,
                     !.info.gridschangedList = gridschangedList,
                     !.info.monitorschanged = monitorschanged,
                     !.info.gridschanged = gridschanged,
                     !.info.redisplay = monitorschanged \/ gridschanged]

\* a WindowManager that is not looked at
WmIdle == wm = NewWindowManager(<<>>)

\* new WindowManager(desktopManager, desktopList, asDesktop, primaryIndex)
InitWm == \E d \in DesktopLists : wm = NewWindowManager(d.areas)

\* WindowManager.updateGridWindows(newdesktoplist), up to the change info
UpdateGridWindows(newdesktoplist) ==
  /\ wm' = ComputeDesktopChangeInfo(wm, newdesktoplist)
  /\ UNCHANGED <<ding, ext>>
  /\ UNCHANGED <<uriVars, hostVars, regVars, mgrVars>>

\* the desktop lists arrive one after the other
NextDesktop == \E d \in DesktopLists : UpdateGridWindows(d)

\* ---- window.ding: the subscriptions of a page ----

\* the subscriptions a page makes
MaxSubs == 2

\* the functions a page subscribes
Callbacks == {"f", "g"}

\* the keys of _hostState that patches carry here
HostStateKeys == {"selected", "editMode"}

\* the arguments of window.ding._setHostState: a value that is no object,
\* or an object with some of the keys
HostStatePatches ==
  {[isObject |-> FALSE, keys |-> {},
    val |-> [key \in HostStateKeys |-> FALSE]]}
    \cup {[isObject |-> TRUE, keys |-> K, val |-> v] :
            K \in SUBSET HostStateKeys, v \in [HostStateKeys -> BOOLEAN]}

\* the data of the message events the host posts: configChanged or a
\* getConfig reply, with a config that is an object or not
ConfigMessages ==
  {[type |-> t, config |-> c] :
     t \in {"configChanged", "getConfigReply"},
     c \in Configs \cup {"notObject"}}

\* nothing was done on the object yet
NoDingOp == [name |-> "none", changed |-> FALSE, sub |-> 0]

\* window.ding when the injected script has run: domReady is whether the
\* document was past 'loading' then
NewDing(domReady) ==
  [hostState |-> [key \in HostStateKeys |-> FALSE],
   configCache |-> "c0",
   hostStateListeners |-> <<>>,
   configListeners |-> <<>>,
   domReady |-> domReady,
   subs |-> <<>>,
   calls |-> <<>>,
   op |-> NoDingOp]

\* Set.add on a set kept in insertion order
SetAdd(set, cb) ==
  IF \E k \in 1..Len(set) : set[k] = cb THEN set ELSE Append(set, cb)

\* Set.delete
SetDelete(set, cb) == SelectSeq(set, LAMBDA c : c # cb)

\* listeners.forEach(cb => cb(snapshot)): the calls made, in order
NotifyListeners(listeners, kind, snapshot) ==
  [k \in 1..Len(listeners) |->
     [kind |-> kind, cb |-> listeners[k], snapshot |-> snapshot]]

\* the hostState _setHostState leaves: the own keys of the patch written
Patched(hostState, patch) ==
  [key \in HostStateKeys |->
     IF key \in patch.keys THEN patch.val[key] ELSE hostState[key]]

\* _setHostState notifying whether or not a value changed
SetHostStateIn_Always(d, patch) ==
  IF ~patch.isObject
  THEN [d EXCEPT !.calls = <<>>,
                 !.op = [NoDingOp EXCEPT !.name = "_setHostState"]]
  ELSE [d EXCEPT !.hostState = Patched(d.hostState, patch),
                 !.calls = NotifyListeners(d.hostStateListeners,
                             "hostState", Patched(d.hostState, patch)),
                 !.op = [NoDingOp EXCEPT
                           !.name = "_setHostState",
                           !.changed =
                              Patched(d.hostState, patch) # d.hostState]]

\* _setHostState(patch)
SetHostStateIn(d, patch) ==
  IF ~patch.isObject
  THEN [d EXCEPT !.calls = <<>>,
                 !.op = [NoDingOp EXCEPT !.name = "_setHostState"]]
  ELSE LET next == Patched(d.hostState, patch)
           changed == \E key \in patch.keys :
                        d.hostState[key] # patch.val[key]
       IN [d EXCEPT !.hostState = next,
                    !.calls = IF changed
                              THEN NotifyListeners(d.hostStateListeners,
                                                   "hostState", next)
                              ELSE <<>>,
                    !.op = [NoDingOp EXCEPT !.name = "_setHostState",
                                            !.changed = changed]]

\* the 'message' listener of the script, up to _setConfigCache
OnMessageIn(d, data) ==
  IF data.config = "notObject"
  THEN [d EXCEPT !.calls = <<>>,
                 !.op = [NoDingOp EXCEPT !.name = "message"]]
  ELSE [d EXCEPT !.configCache = data.config,
                 !.calls = NotifyListeners(d.configListeners, "config",
                                           data.config),
                 !.op = [NoDingOp EXCEPT !.name = "message",
                                         !.changed = TRUE]]

\* a page script that is not looked at
DingIdle == ding = NewDing(TRUE)

\* the injected script has run in a document that is loading or loaded
InitDing == \E domReady \in BOOLEAN : ding = NewDing(domReady)

\* window.ding.onHostStateChanged(cb)
OnHostStateChanged(cb) ==
  /\ Len(ding.subs) < MaxSubs
  /\ ding' = [ding EXCEPT
       !.hostStateListeners = SetAdd(@, cb),
       !.calls = <<[kind |-> "hostState", cb |-> cb,
                    snapshot |-> ding.hostState]>>,
       !.subs = Append(@, [kind |-> "hostState", cb |-> cb,
                           unsubscribed |-> FALSE]),
       !.op = [NoDingOp EXCEPT !.name = "subscribe",
                               !.sub = Len(ding.subs) + 1]]
  /\ UNCHANGED <<wm, ext>>
  /\ UNCHANGED <<uriVars, hostVars, regVars, mgrVars>>

\* window.ding.onConfigChanged(cb)
OnConfigChanged(cb) ==
  /\ Len(ding.subs) < MaxSubs
  /\ ding' = [ding EXCEPT
       !.configListeners = SetAdd(@, cb),
       !.calls = <<[kind |-> "config", cb |-> cb,
                    snapshot |-> ding.configCache]>>,
       !.subs = Append(@, [kind |-> "config", cb |-> cb,
                           unsubscribed |-> FALSE]),
       !.op = [NoDingOp EXCEPT !.name = "subscribe",
                               !.sub = Len(ding.subs) + 1]]
  /\ UNCHANGED <<wm, ext>>
  /\ UNCHANGED <<uriVars, hostVars, regVars, mgrVars>>

\* the function subscription k returned is called
Unsubscribe(k) ==
  /\ k \in 1..Len(ding.subs)
  /\ ding' = [ding EXCEPT
       !.hostStateListeners =
          IF ding.subs[k].kind = "hostState"
          THEN SetDelete(@, ding.subs[k].cb) ELSE @,
       !.configListeners =
          IF ding.subs[k].kind = "config"
          THEN SetDelete(@, ding.subs[k].cb) ELSE @,
       !.calls = <<>>,
       !.subs[k].unsubscribed = TRUE,
       !.op = [NoDingOp EXCEPT !.name = "unsubscribe", !.sub = k]]
  /\ UNCHANGED <<wm, ext>>
  /\ UNCHANGED <<uriVars, hostVars, regVars, mgrVars>>

\* the host evaluates window.ding._setHostState(patch) in the page
SetHostState(patch) ==
  /\ ding' = SetHostStateIn(ding, patch)
  /\ UNCHANGED <<wm, ext>>
  /\ UNCHANGED <<uriVars, hostVars, regVars, mgrVars>>

\* a message event of the host arrives in the page
OnMessage(data) ==
  /\ ding' = OnMessageIn(ding, data)
  /\ UNCHANGED <<wm, ext>>
  /\ UNCHANGED <<uriVars, hostVars, regVars, mgrVars>>

\* DOMContentLoaded: doInitialDomSync
DoInitialDomSync ==
  /\ ~ding.domReady
  /\ ding' = [ding EXCEPT
       !.domReady = TRUE,
       !.calls = NotifyListeners(ding.hostStateListeners, "hostState",
                                 ding.hostState),
       !.op = [NoDingOp EXCEPT !.name = "domReady"]]
  /\ UNCHANGED <<wm, ext>>
  /\ UNCHANGED <<uriVars, hostVars, regVars, mgrVars>>

\* a page subscribes and unsubscribes while the host pushes
NextDing ==
  \/ \E cb \in Callbacks : OnHostStateChanged(cb)
  \/ \E cb \in Callbacks : OnConfigChanged(cb)
  \/ \E k \in 1..MaxSubs : Unsubscribe(k)
  \/ \E patch \in HostStatePatches : SetHostState(patch)
  \/ \E data \in ConfigMessages : OnMessage(data)
  \/ DoInitialDomSync

\* ---- AccentColorIconThemeExtension: the handlers it connects ----

\* the times the extension is enabled
MaxCycles == 2

\* the accent colours, in the order of themeKeys
Colours ==
  <<"blue", "teal", "green", "yellow", "orange", "red", "pink", "purple",
    "slate">>

\* themeKeys of enable()
ThemeKeys ==
  <<"blue-theme", "teal-theme", "green-theme", "yellow-theme",
    "orange-theme", "red-theme", "pink-theme", "purple-theme",
    "slate-theme">>

\* this.iconThemes of enable(): the theme of each colour
IconThemes ==
  <<"Adwaita-Blue-Default", "Adwaita-Teal", "Adwaita-Green",
    "Adwaita-Yellow", "Adwaita-Orange", "Adwaita-Red", "Adwaita-Pink",
    "Adwaita-Purple", "Adwaita-Slate">>

\* the colours whose theme key the user edits
EditedColours == {1, 2}

\* the extension object as constructed, on a desktop whose accent colour
\* is the first and whose theme keys hold the themes of the extension;
\* objects are the Gio.Settings objects made so far that were not
\* finalised, handlers the handlers connected on them, calls the handler
\* calls of the last emission
NewExtension ==
  [enabled |-> FALSE,
   settings |-> 0,
   preferences |-> 0,
   accentColorChangedId |-> 0,
   appIconChangeId |-> 0,
   customThemeChangedId |-> 0,
   objects |-> {},
   handlers |-> {},
   cycles |-> 0,
   accentColor |-> 1,
   customThemes |-> [c \in EditedColours |-> TRUE],
   iconTheme |-> "Adwaita",
   calls |-> 0,
   op |-> "none"]

\* the handler ids of the connect calls of the n-th enable(): the first
\* for accent-color, the second for change-app-colors, then one for each
\* theme key
HandlerId(n, k) == (n - 1) * (2 + Len(ThemeKeys)) + k

\* the handlers enable() number n connects on its two objects
Connected(n) ==
  {[object |-> 2 * n - 1, id |-> HandlerId(n, 1), key |-> "accent-color"],
   [object |-> 2 * n, id |-> HandlerId(n, 2), key |-> "change-app-colors"]}
    \cup {[object |-> 2 * n, id |-> HandlerId(n, 2 + k),
           key |-> ThemeKeys[k]] : k \in 1..Len(ThemeKeys)}

\* _onAccentColorChanged: the icon theme it sets, if _settings is there
OnAccentColorChanged(e) ==
  IF e.settings = 0 THEN e
  ELSE [e EXCEPT !.iconTheme =
          IF e.preferences # 0
               /\ (e.accentColor \notin EditedColours
                     \/ e.customThemes[e.accentColor])
          THEN IconThemes[e.accentColor]
          ELSE "Adwaita"]

\* disable(): the three ids it holds are disconnected
DisableIn(e) ==
  [e EXCEPT !.enabled = FALSE,
            !.handlers =
               {h \in @ :
                  ~ \/ h.object = e.settings
                       /\ h.id = e.accentColorChangedId
                    \/ h.object = e.preferences
                       /\ h.id \in {e.appIconChangeId,
                                    e.customThemeChangedId}},
            !.accentColorChangedId = 0,
            !.appIconChangeId = 0,
            !.customThemeChangedId = 0,
            !.iconTheme = "Adwaita",
            !.settings = 0,
            !.preferences = 0,
            !.calls = 0,
            !.op = "disable"]

\* an extension that is not looked at
ExtIdle == ext = NewExtension

\* enable()
Enable ==
  /\ ~ext.enabled
  /\ ext.cycles < MaxCycles
  /\ LET n == ext.cycles + 1
         e == [ext EXCEPT !.enabled = TRUE,
                          !.cycles = n,
                          !.settings = 2 * n - 1,
                          !.preferences = 2 * n,
                          !.objects = @ \cup {2 * n - 1, 2 * n},
                          !.handlers = @ \cup Connected(n),
                          !.accentColorChangedId = HandlerId(n, 1),
                          !.appIconChangeId = HandlerId(n, 2),
                          !.customThemeChangedId = HandlerId(n, 3),
                          !.calls = 0,
                          !.op = "enable"]
     IN ext' = OnAccentColorChanged(e)
  /\ UNCHANGED <<wm, ding>>
  /\ UNCHANGED <<uriVars, hostVars, regVars, mgrVars>>

\* disable()
Disable ==
  /\ ext.enabled
  /\ ext' = DisableIn(ext)
  /\ UNCHANGED <<wm, ding>>
  /\ UNCHANGED <<uriVars, hostVars, regVars, mgrVars>>

\* the handlers of the key that an emission calls
HandlersOf(e, key) == {h \in e.handlers : h.key = key}

\* the accent colour of the desktop is changed: changed::accent-color
AccentColorChanged(c) ==
  /\ c # ext.accentColor
  /\ LET e == [ext EXCEPT !.accentColor = c,
                          !.calls = Cardinality(
                                      HandlersOf(ext, "accent-color")),
                          !.op = "accent-color"]
     IN ext' = IF HandlersOf(ext, "accent-color") # {}
               THEN OnAccentColorChanged(e) ELSE e
  /\ UNCHANGED <<wm, ding>>
  /\ UNCHANGED <<uriVars, hostVars, regVars, mgrVars>>

\* the user empties or restores the theme key of a colour: changed::<key>
ThemeKeyChanged(c) ==
  /\ LET e == [ext EXCEPT !.customThemes[c] = ~@,
                          !.calls = Cardinality(
                                      HandlersOf(ext, ThemeKeys[c])),
                          !.op = "theme-key"]
     IN ext' = IF HandlersOf(ext, ThemeKeys[c]) # {}
               THEN OnAccentColorChanged(e) ELSE e
  /\ UNCHANGED <<wm, ding>>
  /\ UNCHANGED <<uriVars, hostVars, regVars, mgrVars>>

\* change-app-colors is switched: _onAppIconChanged resets icon-theme and
\* sets it again
AppIconChanged ==
  /\ ext' = [ext EXCEPT !.calls = Cardinality(
                                    HandlersOf(ext, "change-app-colors")),
                        !.op = "change-app-colors"]
  /\ UNCHANGED <<wm, ding>>
  /\ UNCHANGED <<uriVars, hostVars, regVars, mgrVars>>

\* a Gio.Settings object the extension has dropped is finalised, and its
\* handlers go with it
Finalise(o) ==
  /\ o \in ext.objects
  /\ o \notin {ext.settings, ext.preferences}
  /\ ext' = [ext EXCEPT !.objects = @ \ {o},
                        !.handlers = {h \in @ : h.object # o},
                        !.calls = 0,
                        !.op = "finalise"]
  /\ UNCHANGED <<wm, ding>>
  /\ UNCHANGED <<uriVars, hostVars, regVars, mgrVars>>

\* the extension is switched on and off while the settings change
NextExt ==
  \/ Enable
  \/ Disable
  \/ \E c \in 1..Len(Colours) : AccentColorChanged(c)
  \/ \E c \in EditedColours : ThemeKeyChanged(c)
  \/ AppIconChanged
  \/ \E o \in 1..(2 * MaxCycles) : Finalise(o)

\* ---- the three are at rest ----
ShellIdle == WmIdle /\ DingIdle /\ ExtIdle

vars == <<uriVars, hostVars, regVars, mgrVars, shellVars>>

\* the scheme handler, next to a host as constructed and an empty disk
InitSpecUri == InitUri /\ InitHost /\ RegIdle /\ MgrServing /\ ShellIdle
SpecUri == InitSpecUri /\ [][NextUri]_vars

\* one host and the manager's record of its instance
InitSpecHost == InitHost /\ InitUri /\ RegIdle /\ MgrIdle /\ ShellIdle
SpecHost == InitSpecHost /\ [][NextHost]_vars

\* the registry's first load
InitSpecReg == InitReg /\ InitUri /\ InitHost /\ MgrIdle /\ ShellIdle
SpecReg == InitSpecReg /\ [][NextReg]_vars

\* the registry and its callers
InitSpecCalls == RegSameId /\ InitUri /\ InitHost /\ MgrIdle /\ ShellIdle
SpecCalls == InitSpecCalls /\ [][NextCalls]_vars

\* the registry, its callers and reload()
SpecReload == InitSpecCalls /\ [][NextReload]_vars

\* the widget manager with its web widget context
InitSpecMgr == InitMgr /\ InitUri /\ InitHost /\ RegIdle /\ ShellIdle
SpecMsg == InitSpecMgr /\ [][NextMsg]_vars
SpecPrefs == InitSpecMgr /\ [][NextPrefs]_vars
SpecLoad == InitSpecMgr /\ [][NextLoad]_vars
SpecState == InitSpecMgr /\ [][NextState]_vars

\* getInstanceFrame as a function of the instance and the grid
InitSpecFrame == InitFrame /\ InitUri /\ InitHost /\ RegIdle /\ ShellIdle
SpecFrame == InitSpecFrame /\ [][NextFrame]_vars

\* the layout changes
SpecLayout == InitSpecMgr /\ [][NextLayout]_vars

\* the policy of the context, for every profile
InitSpecCsp == InitCsp /\ InitUri /\ InitHost /\ RegIdle /\ ShellIdle
SpecCsp == InitSpecCsp /\ [][NextCsp]_vars

\* ------------------------------------------------------------------------
\* Properties of the host
\* ------------------------------------------------------------------------
\* the places in surfaceLog where call n of the given kind was delivered
Deliveries(kind, n) ==
  {k \in 1..Len(surfaceLog) : surfaceLog[k] = [kind |-> kind, n |-> n]}

\* the place of call n in surfaceLog when it was delivered exactly once
Pos(n) ==
  CHOOSE k \in 1..Len(surfaceLog) : surfaceLog[k].n = n

\* the place where content was first loaded into the view, 0 = not yet
LoadPos ==
  LET ks == {k \in 1..Len(surfaceLog) :
               surfaceLog[k].kind \in {"load_uri", "load_html"}}
  IN IF ks = {} THEN 0 ELSE CHOOSE k \in ks : \A j \in ks : k <= j

\* the calls made while the host had no view yet
QueuedCalls == {n \in 1..Len(callLog) : ~callLog[n].ready}

\* _start has returned on a live host that has its view
FlushedAlive == startPc = "done" /\ ~host.destroyed /\ host.webView

DeliveredOnce(n) ==
  Cardinality(Deliveries(callLog[n].kind, n)) = 1

\* C5 (as claimed): once the surface is ready and _start has returned,
\* every call made before readiness has been delivered exactly once, after
\* the content load, and in call order across both kinds of call
C5_AsClaimed ==
  FlushedAlive =>
    /\ \A n \in QueuedCalls : DeliveredOnce(n) /\ Pos(n) > LoadPos
    /\ \A n, m \in QueuedCalls : n < m => Pos(n) < Pos(m)

\* C5 (amended): once _start has returned on a live host with a view, every
\* call made before the view existed has been delivered exactly once, after
\* the content load; the host-state patches come first, in call order, the
\* messages after them, in call order; and both queues are empty
C5_PerKindOrder ==
  FlushedAlive =>
    /\ \A n \in QueuedCalls : DeliveredOnce(n) /\ Pos(n) > LoadPos
    /\ \A n, m \in QueuedCalls :
         (n < m /\ callLog[n].kind = callLog[m].kind) => Pos(n) < Pos(m)
    /\ \A n, m \in QueuedCalls :
         (callLog[n].kind = "patch" /\ callLog[m].kind = "msg")
           => Pos(n) < Pos(m)
    /\ host.pendingHostStatePatches = <<>>
    /\ host.pendingPostMessages = <<>>

\* C5 witness: a message, then a patch, then a message were queued before
\* the view existed and have all been flushed
C5_Witness ==
  /\ FlushedAlive
  /\ Len(callLog) = 3
  /\ QueuedCalls = {1, 2, 3}
  /\ callLog[1].kind = "msg"
  /\ callLog[2].kind = "patch"
  /\ callLog[3].kind = "msg"
  /\ Len(surfaceLog) = 4

\* C6 (as claimed): the messages are in the view in call order, and none
\* was given to the view before content was loaded into it
C6_AsClaimed ==
  /\ \A i, j \in 1..Len(surfaceLog) :
       (i < j /\ surfaceLog[i].kind = "msg" /\ surfaceLog[j].kind = "msg")
         => surfaceLog[i].n < surfaceLog[j].n
  /\ \A i \in 1..Len(surfaceLog) :
       surfaceLog[i].kind = "msg" => (LoadPos # 0 /\ LoadPos < i)

\* C7 (as claimed): once destroy() has been called, no call of it threw,
\* the host has no view and both pending queues are empty
C7_AsClaimed ==
  host.destroyed =>
    /\ ~lastCall.destroyThrew
    /\ ~host.webView
    /\ host.pendingHostStatePatches = <<>>
    /\ host.pendingPostMessages = <<>>

\* C8 (as claimed): removeInstance of an existing instance returns with
\* the instance gone from _instances and its host destroyed, without view
C8_AsClaimed ==
  lastCall.op = "remove" =>
    /\ ~lastCall.threw
    /\ ~inst.present
    /\ host.destroyed
    /\ ~host.webView

\* C9 (as claimed): getWebViewAsync returns the view itself exactly when
\* the host has it; the callers before that all hold the same promise; and
\* once _start is over, however the construction ended, that promise has
\* been resolved exactly once
C9_AsClaimed ==
  /\ \A k \in 1..Len(gets) : gets[k].ready <=> gets[k].promise = 0
  /\ \A k, l \in 1..Len(gets) :
       (gets[k].startPc = "waiting" /\ gets[l].startPc = "waiting" /\
        ~gets[k].ready /\ ~gets[l].ready)
         => gets[k].promise = gets[l].promise
  /\ startPc # "waiting" =>
       \A k \in 1..Len(gets) :
         (gets[k].startPc = "waiting" /\ ~gets[k].ready)
           => resolved[gets[k].promise] = 1

\* ------------------------------------------------------------------------
\* Properties of the registry
\* ------------------------------------------------------------------------
\* the places <<root, place>> of the bundles on disk
Bundles == {b \in (1..Len(Roots)) \X (1..MaxBundles + 1) : b[2] <= Len(disk[b[1]])}

BundleId(b) == IdRaw(disk[b[1]][b[2]])

\* the bundles that carry the valid id
BundlesOf(id) == {b \in Bundles : BundleId(b) = id}

\* b is discovered before c by a load
Before(b, c) == b[1] < c[1] \/ (b[1] = c[1] /\ b[2] < c[2])

\* the bundles of the id in the winning scope: the user's if there is
\* one, the system's otherwise
WinningScope(id) ==
  IF \E b \in BundlesOf(id) : IsUserRoot(b[1])
  THEN {b \in BundlesOf(id) : IsUserRoot(b[1])}
  ELSE BundlesOf(id)

\* C10: listWidgets() returns exactly one descriptor for every valid id
\* found on disk and none for any other id; the descriptor is the user's
\* when a user bundle and a system bundle carry the id, and among the
\* bundles of one scope it is the one discovered first.
C10_OnePerIdUserWins ==
  listed.called =>
    /\ {d.id : d \in listed.result} = {id \in ValidIds : BundlesOf(id) # {}}
    /\ \A d, e \in listed.result : d.id = e.id => d = e
    /\ \A d \in listed.result :
         /\ d.dir \in WinningScope(d.id)
         /\ \A b \in WinningScope(d.id) : b = d.dir \/ Before(d.dir, b)
         /\ d.isUser = IsUserRoot(d.dir[1])

\* C10 witness: listWidgets() has returned the user's descriptor for an id
\* that a user bundle and two system bundles carry.
C10_Witness ==
  /\ listed.called
  /\ \E id \in ValidIds :
       /\ Cardinality({b \in BundlesOf(id) : IsUserRoot(b[1])}) >= 1
       /\ Cardinality({b \in BundlesOf(id) : ~IsUserRoot(b[1])}) >= 2
       /\ \E d \in listed.result : d.id = id /\ d.isUser

\* the loads in flight
RunningLoads == {l \in 1..Len(scan) : scan[l].running}

\* the calls that read the descriptor map (a call with an empty id returns
\* null without reading it)
ReadsMap(c) == c.op = "listWidgets" \/ c.id # <<>>

\* the number of reload() calls made before load l started; -1 for the
\* map no load built
Gen(l) == IF l = 0 THEN -1 ELSE scan[l].gen

\* C11: at most one scan is in flight at a time; a call that arrives
\* while a load is in flight awaits that load, which is the one
\* _loadingPromise stands for; and every call that has returned read the
\* map of a registry that was loaded, built by a load that had completed.
C11_OneLoadShared ==
  /\ Cardinality(RunningLoads) <= 1
  /\ \A k \in 1..Len(calls) :
       LET c == calls[k] IN
       /\ (ReadsMap(c) /\ c.inFlight # 0) => c.load = c.inFlight
       /\ c.state = "waiting" =>
            (c.load = loadingPromise /\ c.load \in RunningLoads)
       /\ (c.state = "done" /\ ReadsMap(c)) =>
            (c.sawLoaded /\ c.served # 0 /\ c.served \notin RunningLoads)

\* C11 witness: two calls arrived while the constructor's load was in
\* flight over a disk with bundles, awaited it and have returned its map.
C11_Witness ==
  /\ Len(calls) = 2
  /\ \A k \in 1..2 :
       /\ calls[k].inFlight = 1
       /\ calls[k].state = "done"
       /\ calls[k].served = 1
       /\ calls[k].result # {}
  /\ Len(scan) = 1

\* C12 (as claimed): the registry is loaded only with the map of a scan
\* that started after the last reload(), and a call that has returned
\* read the map of a scan that started after every reload() made before
\* the call.
C12_AsClaimed ==
  /\ loaded => Gen(served) = reloads
  /\ \A k \in 1..Len(calls) :
       (calls[k].state = "done" /\ ReadsMap(calls[k]))
         => Gen(calls[k].served) >= calls[k].atReloads

\* the warnings load l has logged for the id
WarningsOf(l, id) ==
  {k \in 1..Len(warnings) : warnings[k] = [load |-> l, id |-> id]}

\* C13 (as claimed): a load logs at most one warning for an id, and once
\* it has completed it has logged exactly one for every id that two or
\* more bundles carry and none for the other ids.
C13_AsClaimed ==
  \A l \in 1..Len(scan) : \A id \in ValidIds :
    /\ Cardinality(WarningsOf(l, id)) <= 1
    /\ ~scan[l].running =>
         Cardinality(WarningsOf(l, id)) =
           (IF Cardinality(BundlesOf(id)) >= 2 THEN 1 ELSE 0)

\* ------------------------------------------------------------------------
\* Properties of the widget messages, the preferences window and loadState
\* ------------------------------------------------------------------------
\* the step dispatched a widget message other than log: at once, or after
\* the wait for the view of the instance
IsDispatch ==
  /\ lastOp'.name \in {"message", "window.ding.getConfig", "resume"}
  /\ lastOp'.payload.type # "log"

\* instance i exists and has a widget host that is not destroyed and
\* whose view shows a page under ding-widget://<i>/
LiveSurface(m, i) ==
  /\ i \in WidgetIds
  /\ m.instances[i].present
  /\ m.instances[i].host.exists
  /\ ~m.instances[i].host.destroyed
  /\ m.instances[i].host.view = "own"

\* the preferences window and host, of this context or a dropped one
PrefsOf(c) ==
  <<c.prefsWindow, c.prefsHost.exists, c.prefsInstanceId, c.windowAlive,
    c.windows, c.hosts, c.ghosts>>

\* the step changed an instance config, the preferences window, posted
\* something or wrote the widget state
HadEffect ==
  \/ \E i \in MgrIds : mgr'.instances[i].config # mgr.instances[i].config
  \/ PrefsOf(ctx') # PrefsOf(ctx)
  \/ sent' # <<>>
  \/ lastOp'.wrote

\* C14 as claimed: a widget message other than log changes a config, the
\* preferences window or posts something only if the instance it names
\* exists and has a live widget surface showing a page of that instance
\* when it is dispatched; in every other case nothing happens and nothing
\* is thrown
C14_AsClaimed ==
  [][IsDispatch =>
       ((HadEffect \/ lastOp'.threw) =>
          LiveSurface(mgr', lastOp'.payload.instanceId))]_vars

\* a configChanged message carrying config c was posted on the host of
\* the surface to of instance i in this step
PostedConfigChanged(to, i, c) ==
  \E k \in 1..Len(sent') :
    /\ sent'[k].to = to
    /\ sent'[k].inst = i
    /\ sent'[k].kind = "configChanged"
    /\ sent'[k].config = c

\* C15: when an updateConfig message with an object config C is
\* dispatched for an instance X with a live surface showing its page, X's
\* config is C afterwards, configChanged with C has reached the widget
\* view, and if the preferences window is open for X configChanged with C
\* was posted on the preferences host too
C15_ConfigChangedToBoth ==
  [][(/\ IsDispatch
      /\ lastOp'.payload.type = "updateConfig"
      /\ lastOp'.payload.config \in Configs
      /\ LiveSurface(mgr', lastOp'.payload.instanceId))
     =>
     LET X == lastOp'.payload.instanceId
         C == lastOp'.payload.config
     IN /\ mgr'.instances[X].config = C
        /\ PostedConfigChanged("widget", X, C)
        /\ \E k \in 1..Len(sent') :
             sent'[k].to = "widget" /\ sent'[k].how = "sent"
        /\ (ctx.windowAlive /\ ctx.prefsInstanceId = X)
             => PostedConfigChanged("prefs", X, C)]_vars

\* C15 witness: updateConfig with config c1 was dispatched for A while
\* the preferences window of A was open; A has c1 and configChanged went
\* to the widget host and to the preferences host
C15_Witness ==
  /\ lastOp.name = "message"
  /\ lastOp.payload.type = "updateConfig"
  /\ lastOp.payload.instanceId = "A"
  /\ lastOp.payload.config = "c1"
  /\ ~mgr.instances["A"].host.destroyed
  /\ ctx.windowAlive /\ ctx.prefsInstanceId = "A"
  /\ mgr.instances["A"].config = "c1"
  /\ Len(sent) = 2
  /\ sent[1].to = "widget" /\ sent[1].config = "c1"
  /\ sent[2].to = "prefs" /\ sent[2].config = "c1"

\* C16 as claimed: the reply to a window.ding.getConfig() call is posted
\* only on the host of the surface whose page made the call: a call from
\* the widget page is never answered on the preferences host, a call from
\* the preferences page never on the widget host
C16_AsClaimed ==
  [][lastOp'.name = "window.ding.getConfig" =>
       \A k \in 1..Len(sent') :
         sent'[k].kind = "getConfigReply" => sent'[k].to = lastOp'.src]_vars

C18_AsClaimed ==
  ctx.windowAlive => mgr.selected = ctx.prefsInstanceId

\* the ids of the entries that have both an instanceId and a widgetId
EntryIds(e) ==
  {e[k].instanceId : k \in {j \in 1..Len(e) :
     ~e[j].isNull /\ e[j].instanceId # "" /\ e[j].widgetId # ""}}

\* the ids of the instances that are no add button
InstanceIdsOf(m) ==
  {i \in MgrIds : m.instances[i].present /\ ~m.instances[i].isAddButton}

\* C19 as claimed: after loadState(state) with an instances array the
\* instances that are no add button are those named by the entries that
\* have both an instanceId and a widgetId, and an add-button instance is
\* still there
C19_AsClaimed ==
  [][(lastOp'.name = "loadState" /\ lastOp'.state.kind = "array") =>
       /\ InstanceIdsOf(mgr') = EntryIds(lastOp'.state.instances)
       /\ mgr.instances[AddButtonId].present =>
            mgr'.instances[AddButtonId].present]_vars

\* C20: loadState(null), loadState of a non-object and loadState of an
\* object whose instances is missing or no array change nothing: no
\* instance, no field, not the selection, not the preferences window;
\* they write no state and throw nothing
C20_NoOp ==
  [][(lastOp'.name = "loadState" /\ lastOp'.state.kind # "array") =>
       /\ mgr' = mgr
       /\ ctx' = ctx
       /\ wait' = wait
       /\ sent' = <<>>
       /\ ~lastOp'.wrote
       /\ ~lastOp'.threw]_vars

\* C20 witness: loadState of an object without instances was called while
\* an instance was there and selected, and the instance is still there
\* and selected
C20_Witness ==
  /\ lastOp.name = "loadState"
  /\ lastOp.state.kind = "noInstances"
  /\ mgr.instances["A"].present
  /\ mgr.instances["B"].present
  /\ mgr.selected = "A"

\* C21 as claimed: loadState writes no widget state while it applies a
\* state, and when it is over, by return or by an exception of an entry or
\* of a removal, the suppression flag is what it was before the call
C21_AsClaimed ==
  [][lastOp'.name = "loadState" =>
       /\ ~lastOp'.wrote
       /\ mgr'.suppress = mgr.suppress]_vars

\* C22 as claimed: loadState does not fail on an entry: a null entry and
\* an entry without instanceId or widgetId are skipped, and every other
\* entry of the array is applied, so that its instance is there with the
\* entry's config when loadState is over
C22_AsClaimed ==
  [][(lastOp'.name = "loadState" /\ lastOp'.state.kind = "array") =>
       \A i \in EntryIds(lastOp'.state.instances) :
         /\ mgr'.instances[i].present
         /\ mgr'.instances[i].config = "c1"]_vars

\* instance i holds a host that isAlive()
HoldsLiveHost(m, i) ==
  /\ m.instances[i].present
  /\ m.instances[i].host.exists
  /\ ~m.instances[i].host.destroyed

\* C24 as claimed: when createInstanceForWidget, removeInstance, loadState,
\* applyLayoutChange or stopWidgetDisplay has returned, the manager holds
\* a web context only if some instance holds a live host
C24_AsClaimed ==
  (/\ lastOp.name \in {"createInstanceForWidget", "removeInstance",
                       "loadState", "applyLayoutChange",
                       "stopWidgetDisplay"}
   /\ ~lastOp.threw
   /\ mgr.hasContext)
    => \E i \in MgrIds : HoldsLiveHost(mgr, i)

\* what the round trip keeps of an entry
Persisted(e) ==
  [instanceId |-> e.instanceId, widgetId |-> e.widgetId,
   config |-> e.config, normX |-> e.normX, normY |-> e.normY]

\* the entries of a sequence as a set
PersistedSet(e) == {Persisted(e[k]) : k \in 1..Len(e)}

\* C23 as claimed: exportState() right after loadState(S), S a well-formed
\* state of N instances with distinct ids, is a state of version 1 with
\* the same N instances (instanceId, widgetId, config, normX, normY), and
\* loading that export changes no instance
C23_AsClaimed ==
  [][(lastOp'.name = "loadState" /\ lastOp'.state \in WellFormedStates) =>
       LET out == ExportState(mgr') IN
       /\ out.version = 1
       /\ Len(out.instances) = Len(lastOp'.state.instances)
       /\ PersistedSet(out.instances) =
            PersistedSet(lastOp'.state.instances)
       /\ LoadStateIn(Running(mgr', ctx'),
                      [kind |-> "array", instances |-> out.instances])
            .m.instances = mgr'.instances]_vars

\* where the actor of i is among the children of the container, counted
\* from the deepest; -1 when it is not there to be seen
StackingPosition(m, i) ==
  IF m.displaying /\ \E k \in 1..Len(m.children) : m.children[k] = i
  THEN CHOOSE k \in 1..Len(m.children) : m.children[k] = i
  ELSE -1

\* C28: exportState has one entry for each instance that is no add
\* button and none for the add button, in the order of ascending
\* monitorIndex and, on one monitor, of ascending stacking position, the
\* instances without a stacking position first
C28_ExportOrder ==
  LET out == ExportState(mgr).instances IN
  /\ Len(out) = Cardinality(InstanceIdsOf(mgr))
  /\ {out[k].instanceId : k \in 1..Len(out)} = InstanceIdsOf(mgr)
  /\ \A j, k \in 1..Len(out) :
       j < k =>
         \/ out[j].monitorIndex < out[k].monitorIndex
         \/ /\ out[j].monitorIndex = out[k].monitorIndex
            /\ StackingPosition(mgr, out[j].instanceId)
                 <= StackingPosition(mgr, out[k].instanceId)

\* C28 witness: A and B are on the monitor, the add button is there, B's
\* actor is deeper than A's, and the export names B before A
C28_Witness ==
  /\ mgr.instances["A"].present
  /\ mgr.instances["B"].present
  /\ mgr.instances[AddButtonId].present
  /\ mgr.instances["A"].monitorIndex = mgr.instances["B"].monitorIndex
  /\ StackingPosition(mgr, "B") > 0
  /\ StackingPosition(mgr, "B") < StackingPosition(mgr, "A")
  /\ ExportState(mgr).instances[1].instanceId = "B"
  /\ Len(ExportState(mgr).instances) = 2

\* C29 as claimed: every instance has 0 <= normX <= 1 and 0 <= normY <= 1
C29_AsClaimed ==
  \A i \in MgrIds :
    mgr.instances[i].present =>
      /\ 0 <= mgr.instances[i].normX /\ mgr.instances[i].normX <= Unit
      /\ 0 <= mgr.instances[i].normY /\ mgr.instances[i].normY <= Unit

\* C30: on a grid of positive size W x H, for an instance whose width and
\* height are not larger than the grid, the frame getInstanceFrame returns
\* lies inside the grid (0 <= x, x + width <= W, 0 <= y, y + height <= H)
\* and has the width and height of the instance; when normX * W and
\* normY * H already lie inside, the frame is exactly there
C30_FrameInGrid ==
  lastOp.name = "getInstanceFrame" =>
    LET it == mgr.instances["A"]
        f == lastOp.frame
        W == mgr.grid.normalizedWidth
        H == mgr.grid.normalizedHeight
        px == it.normX * W
        py == it.normY * H
    IN (W > 0 /\ H > 0 /\ it.width <= W /\ it.height <= H) =>
         /\ 0 <= f.x
         /\ f.x + f.width * Unit <= W * Unit
         /\ 0 <= f.y
         /\ f.y + f.height * Unit <= H * Unit
         /\ f.width = it.width
         /\ f.height = it.height
         /\ (/\ 0 <= px /\ px + it.width * Unit <= W * Unit
             /\ 0 <= py /\ py + it.height * Unit <= H * Unit)
              => (f.x = px /\ f.y = py)

\* C30 witness: the instance at (0.5, 0.5) of size 200 x 150 on the grid
\* of 1000 x 800 has the frame {x: 500, y: 400, width: 200, height: 150}
C30_Witness ==
  /\ lastOp.name = "getInstanceFrame"
  /\ mgr.grid = [normalizedWidth |-> 1000, normalizedHeight |-> 800]
  /\ mgr.instances["A"].normX * 2 = Unit
  /\ mgr.instances["A"].normY * 2 = Unit
  /\ lastOp.frame = [x |-> 500 * Unit, y |-> 400 * Unit, width |-> 200,
                     height |-> 150]

\* the documents loaded into the surface so far: load_uri(url) and
\* load_html(fallback) calls, in order
Loaded(log) ==
  SelectSeq(log, LAMBDA e : e.kind \in {"load_uri", "load_html"})

\* C27: at most one document is ever loaded into the surface of a host;
\* once URL resolution has settled, a host that holds its surface has
\* exactly one document loaded: the computed URL when there is one, the
\* "widget unavailable" fallback when resolution gave null
C27_OneDocumentLoaded ==
  /\ Len(Loaded(surfaceLog)) <= 1
  /\ (host.webView /\ mkUrl # "pending") =>
       /\ Len(Loaded(surfaceLog)) = 1
       /\ Loaded(surfaceLog)[1].kind =
            (IF mkUrl = "url" THEN "load_uri" ELSE "load_html")

\* C27 witness: the surface was built, URL resolution gave null, and the
\* fallback document is the one thing loaded
C27_Witness ==
  /\ host.webView
  /\ mkView = "done"
  /\ mkUrl = "nourl"
  /\ startPc = "done"
  /\ Len(Loaded(surfaceLog)) = 1
  /\ Loaded(surfaceLog)[1].kind = "load_html"

\* the policy of a profile as it goes into the header: the words of the
\* profile's text with one space between them
PolicyOf(profile) ==
  CASE profile = "STRICT" ->
         <<"default-src", " ", "'none';", " ",
           "connect-src", " ", "'self'", " ", "https:", " ", ";">>
    [] profile = "DEV" ->
         <<"default-src", " ", "'none';", " ",
           "connect-src", " ", "'self'", " ", "https:", " ", "http:", " ",
           "ws://localhost:*;">>
    [] profile = "RELAXED" ->
         <<"default-src", " ", "'none';", " ", "base-uri", " ", "'self';">>

\* the one Content-Security-Policy header carrying the policy of profile
PolicyHeader(profile) ==
  <<[name |-> "Content-Security-Policy", value |-> PolicyOf(profile)]>>

\* C26 (as claimed): with each of the profiles STRICT, DEV and RELAXED the
\* context is constructed without an error and holds the policy of the
\* profile, and every content response of the scheme handler carries one
\* Content-Security-Policy header with exactly that policy
C26_AsClaimed ==
  /\ lastOp.name = "createInstanceForWidget" =>
       (~lastOp.threw /\ mgr.hasContext)
  /\ mgr.hasContext => ctx.cspString = PolicyOf(ctx.profile)
  /\ (req.pc = "done" /\ req.finishes = <<"CONTENT">>) =>
       req.headers = PolicyHeader(ctx.profile)

\* a host of the manager's context is alive, or its preferences host
\* exists
ContextInUse ==
  \/ \E i \in MgrIds :
       /\ mgr.instances[i].present
       /\ mgr.instances[i].host.exists
       /\ ~mgr.instances[i].host.destroyed
  \/ ctx.prefsHost.exists

\* C25: a runtime is either not there at all (as constructed, or after
\* destroy) or has the scheme handler, the message handler with its
\* signal connection and the user script registered; a context in use,
\* the manager's or a dropped one that was used again after its destroy,
\* has the whole runtime, and no view was ever made against a runtime
\* that lacked a registration
C25_RuntimeRecreated ==
  /\ ctx.views # "lacking"
  /\ \A r \in {ctx.runtime, ctx.droppedRuntime} : r = NoRuntime \/ Complete(r)
  /\ ~mgr.hasContext => ctx.runtime = NoRuntime
  /\ (mgr.hasContext /\ ContextInUse) => Complete(ctx.runtime)
  /\ ctx.ghosts > 0 => Complete(ctx.droppedRuntime)

\* C25 witness: a context was destroyed and dropped by the manager, then
\* a dispatch that was waiting on it opened a preferences window in it,
\* and its runtime is whole again
C25_Witness ==
  /\ ctx.ghosts > 0
  /\ lastOp.src = "dropped"
  /\ Complete(ctx.droppedRuntime)
  /\ ctx.views = "complete"

\* the fields of an instance record that exportState writes out
PersistedFields(it) ==
  [widgetId |-> it.widgetId, monitorIndex |-> it.monitorIndex,
   normX |-> it.normX, normY |-> it.normY, width |-> it.width,
   height |-> it.height, config |-> it.config]

\* exportState of m lists instance i with the fields of its record
Exported(m, i) ==
  \E k \in 1..Len(ExportState(m).instances) :
    LET e == ExportState(m).instances[k] IN
    /\ e.instanceId = i
    /\ PersistedFields(e) = PersistedFields(m.instances[i])

C32_AsClaimed ==
  mgr.instances[AddButtonId].present <=> mgr.displaying

\* C32 (corrected): a surface has its add-button pseudo-instance, which
\* holds the button that sits in the surface's container; a pseudo-instance
\* whose monitor has no surface may stay in the instance set, but it holds
\* no button, nothing of it is in a container, and exportState leaves it
\* out
C32_AddButtonPerSurface ==
  LET add == mgr.instances[AddButtonId] IN
  /\ mgr.displaying =>
       /\ add.present
       /\ add.isAddButton
       /\ add.actor
       /\ add.monitorIndex = Monitor
       /\ Cardinality({k \in 1..Len(mgr.children) :
                         mgr.children[k] = AddButtonId}) = 1
  /\ ~mgr.displaying =>
       /\ add.present => (add.isAddButton /\ ~add.actor)
       /\ \A k \in 1..Len(mgr.children) : mgr.children[k] # AddButtonId
  /\ \A k \in 1..Len(ExportState(mgr).instances) :
       ExportState(mgr).instances[k].instanceId # AddButtonId

\* C32 witness: clearFromGrids has torn the surface down and the
\* pseudo-instance of its add button is still in the set, without button
C32_Witness ==
  /\ lastOp.name = "clearFromGrids"
  /\ ~mgr.displaying
  /\ mgr.instances[AddButtonId].present
  /\ ~mgr.instances[AddButtonId].actor
  /\ mgr.instances["A"].present

\* C38 (as claimed): the selected instance id is null or the id of an
\* instance that is in the set, is not an add button and holds an actor
C38_AsClaimed ==
  mgr.selected # "" =>
    /\ mgr.instances[mgr.selected].present
    /\ ~mgr.instances[mgr.selected].isAddButton
    /\ mgr.instances[mgr.selected].actor

\* the widgets a persisted state names
WidgetNames == {"w", "v"}

\* the states {version: 1, instances: [...]} whose entries name an
\* instance and one of the widgets
RewriteStates ==
  {[kind |-> "array", instances |-> e] :
     e \in {<<BareEntry(i, w)>> : i \in WidgetIds, w \in WidgetNames}
       \cup {<<BareEntry("A", w), BareEntry("B", v)>> :
               w \in WidgetNames, v \in WidgetNames}}

\* persisted states that name another widget are loaded over instances
\* that are displayed
NextRewrite ==
  \/ \E hasGrid \in BOOLEAN : ApplyLayoutChange(hasGrid)
  \/ StopWidgetDisplayAll
  \/ CreateInstanceForWidget("A", TRUE)
  \/ \E i \in WidgetIds : HostViewDone(i, "own")
  \/ \E state \in RewriteStates : LoadState(state)

\* the widget of an instance is rewritten
SpecRewrite == InitSpecMgr /\ [][NextRewrite]_vars

\* C39 (as claimed): the widgetId a live host of an instance was
\* constructed with is the widgetId of the instance
C39_AsClaimed ==
  \A i \in WidgetIds :
    HoldsLiveHost(mgr, i) =>
      mgr.instances[i].host.widgetId = mgr.instances[i].widgetId

\* C34 (as claimed): once a host is destroyed, a surface that arrives late
\* is neither stored nor put in the frame, no URL and no fallback document
\* is loaded, and no patch or message is handed to the surface
C34_AsClaimed ==
  [][host.destroyed =>
       /\ ~host.webView => ~host'.webView
       /\ host.frame # "view" => host'.frame # "view"
       /\ surfaceLog' = surfaceLog]_vars

\* C35 (as claimed): when the close request of the preferences window has
\* been handled, the context holds no preferences window, no preferences
\* host and no preferences instance id, whether or not the surface of the
\* preferences host was made
C35_AsClaimed ==
  [][lastOp'.name = "closeRequest" =>
       /\ ~ctx'.prefsWindow
       /\ ~ctx'.prefsHost.exists
       /\ ctx'.prefsInstanceId = ""]_vars

\* the widget page of instance a posts the payload p over the script
\* message channel that all surfaces share
SurfaceMessage(a, p) ==
  /\ PageOf(a, "widget")
  /\ Receive(p, [NoOp EXCEPT !.name = "message", !.payload = p,
                             !.sender = a])

\* the pages of two instances post messages that name either instance
NextSender ==
  \/ \E i \in WidgetIds : CreateInstanceForWidget(i, TRUE)
  \/ \E i \in WidgetIds : HostViewDone(i, "own")
  \/ ApplyLayoutChange(TRUE)
  \/ \E i \in WidgetIds : SelectInstance(i)
  \/ \E a \in WidgetIds, p \in Payloads :
       /\ p.type \in {"updateConfig", "openPreferences", "closePreferences"}
       /\ p.instanceId \in WidgetIds
       /\ SurfaceMessage(a, p)

\* the surfaces post under any instance id
SpecSender == InitSpecMgr /\ [][NextSender]_vars

\* the WindowManager compares the desktop lists it is given
InitSpecDesktop ==
  InitWm /\ DingIdle /\ ExtIdle /\ InitUri /\ InitHost /\ RegIdle /\ MgrIdle
SpecDesktop == InitSpecDesktop /\ [][NextDesktop]_vars

\* the subscriptions of a page
InitSpecDing ==
  InitDing /\ WmIdle /\ ExtIdle /\ InitUri /\ InitHost /\ RegIdle /\ MgrIdle
SpecDing == InitSpecDing /\ [][NextDing]_vars

\* the extension's handlers
InitSpecExt ==
  ExtIdle /\ WmIdle /\ DingIdle /\ InitUri /\ InitHost /\ RegIdle /\ MgrIdle
SpecExt == InitSpecExt /\ [][NextExt]_vars

\* C37 (as claimed): a message posted by the surface of one instance
\* leaves the config of every other instance as it was, and neither opens
\* nor closes the preferences window of another instance
C37_AsClaimed ==
  [][(lastOp'.name = "message" /\ lastOp'.sender # "") =>
       \A b \in WidgetIds \ {lastOp'.sender} :
         /\ mgr'.instances[b].config = mgr.instances[b].config
         /\ (ctx'.prefsWindow /\ ctx'.prefsInstanceId = b)
              <=> (ctx.prefsWindow /\ ctx.prefsInstanceId = b)]_vars

\* C36 (as claimed): in a change info that is past the first-desktop case,
\* monitorschanged implies gridschanged, and redisplay is one of the two
C36_AsClaimed ==
  (wm.info.computed /\ ~wm.info.threw /\ ~wm.info.firstDesktop) =>
    /\ wm.info.monitorschanged => wm.info.gridschanged
    /\ wm.info.redisplay
         <=> (wm.info.monitorschanged \/ wm.info.gridschanged)

\* the calls of cb as a listener of the kind among the calls made
CallsTo(made, kind, cb) ==
  Cardinality({k \in 1..Len(made) :
                 made[k].kind = kind /\ made[k].cb = cb})

\* what a listener of the kind is handed: the host state or the config
SnapshotOf(d, kind) ==
  IF kind = "hostState" THEN d.hostState ELSE d.configCache

\* the step is a host-state patch that changed a value (kind hostState)
\* or a config received from the host (kind config)
Pushed(kind) ==
  IF kind = "hostState"
  THEN ding'.op.name = "_setHostState" /\ ding'.hostState # ding.hostState
  ELSE ding'.op.name = "message" /\ ding'.op.changed

\* the step is a subscription: cb is called once, with the snapshot of
\* the time
InitialDelivery ==
  ding'.op.name = "subscribe" =>
    LET sub == ding'.subs[ding'.op.sub] IN
    ding'.calls = <<[kind |-> sub.kind, cb |-> sub.cb,
                     snapshot |-> SnapshotOf(ding, sub.kind)]>>

\* every call of a push hands over the new snapshot
NewSnapshots ==
  \A k \in 1..Len(ding'.calls) :
    Pushed(ding'.calls[k].kind) =>
      ding'.calls[k].snapshot = SnapshotOf(ding', ding'.calls[k].kind)

\* subscription k is one of several of the same function to the same kind
Shared(d, k) ==
  \E j \in 1..Len(d.subs) :
    j # k /\ d.subs[j].kind = d.subs[k].kind /\ d.subs[j].cb = d.subs[k].cb

\* C33 (as claimed): a subscription calls cb once with the current
\* snapshot; every later push of its kind calls the cb of a subscription
\* that was not unsubscribed exactly once, and never the cb of one that
\* was (unless the same function is subscribed once more)
C33_AsClaimed ==
  [][/\ InitialDelivery
     /\ NewSnapshots
     /\ \A k \in 1..Len(ding.subs) :
          Pushed(ding.subs[k].kind) =>
            IF ~ding.subs[k].unsubscribed
            THEN CallsTo(ding'.calls, ding.subs[k].kind,
                         ding.subs[k].cb) = 1
            ELSE (\A j \in 1..Len(ding.subs) :
                    (ding.subs[j].kind = ding.subs[k].kind
                       /\ ding.subs[j].cb = ding.subs[k].cb)
                      => ding.subs[j].unsubscribed)
                   => CallsTo(ding'.calls, ding.subs[k].kind,
                              ding.subs[k].cb) = 0]_vars

\* the listeners of the kind
ListenersOf(d, kind) ==
  IF kind = "hostState" THEN d.hostStateListeners ELSE d.configListeners

\* C33 (corrected): a subscription calls cb once with the current
\* snapshot. Listeners are kept per function: subscribing registers the
\* function (once, however often it is subscribed), calling any of the
\* functions its subscriptions returned removes the registration, and
\* nothing else changes it. A push calls every registered function once
\* with the new snapshot and no other function; a patch that changes no
\* value calls nothing. For a function subscribed once to a kind this is
\* the claim: it is called once per push until its unsubscribe function
\* is called and never afterwards
C33_PerFunction ==
  [][/\ InitialDelivery
     /\ NewSnapshots
     /\ \A kind \in {"hostState", "config"}, cb \in Callbacks :
          /\ Pushed(kind) =>
               CallsTo(ding'.calls, kind, cb) =
                 IF Includes(ListenersOf(ding, kind), cb) THEN 1 ELSE 0
          /\ Includes(ListenersOf(ding', kind), cb) <=>
               IF ding'.op.name = "subscribe"
                    /\ ding'.subs[ding'.op.sub].kind = kind
                    /\ ding'.subs[ding'.op.sub].cb = cb
               THEN TRUE
               ELSE IF ding'.op.name = "unsubscribe"
                         /\ ding.subs[ding'.op.sub].kind = kind
                         /\ ding.subs[ding'.op.sub].cb = cb
               THEN FALSE
               ELSE Includes(ListenersOf(ding, kind), cb)
     /\ (ding'.op.name = "_setHostState"
           /\ ding'.hostState = ding.hostState) => ding'.calls = <<>>
     /\ \A k \in 1..Len(ding.subs) :
          (~Shared(ding, k) /\ Pushed(ding.subs[k].kind)) =>
            CallsTo(ding'.calls, ding.subs[k].kind, ding.subs[k].cb) =
              IF ding.subs[k].unsubscribed THEN 0 ELSE 1]_vars

\* C33 witness: f was subscribed twice to the host state and the first
\* subscription was unsubscribed; a patch then changed a value and f,
\* whose second subscription stands, was not called
C33_Witness ==
  /\ ding.op.name = "_setHostState"
  /\ ding.op.changed
  /\ Len(ding.subs) = 2
  /\ ding.subs[1] = [kind |-> "hostState", cb |-> "f",
                     unsubscribed |-> TRUE]
  /\ ding.subs[2] = [kind |-> "hostState", cb |-> "f",
                     unsubscribed |-> FALSE]
  /\ ding.calls = <<>>

\* C40 (as claimed): while the extension is disabled no handler that an
\* enable() connected is connected, and while it is enabled only the
\* handlers of its last enable() are
C40_AsClaimed ==
  /\ ~ext.enabled => ext.handlers = {}
  /\ ext.enabled => ext.handlers = Connected(ext.cycles)

====
